---- MODULE Spec2Model ----
(***************************************************************************)
(* useDocumentConnection (src/src/document-connection-scope.ts, 27-110):   *)
(* one mounted hook instance, the effect bindings it runs (one per value   *)
(* of `path`), the asynchronous openDocument chain of every binding, and   *)
(* the room capabilities the chain calls (storage.exists, sync.open,       *)
(* sync.close, setTimeout/clearTimeout).                                   *)
(*                                                                         *)
(* subscribe (src/src/subscribe-async-gen.ts): the consumption loop over   *)
(* one asynchronous source and its subscription handle.                    *)
(*                                                                         *)
(* MeshagentFileUpload (file-upload): one upload object, the _upload()     *)
(* runs started on it and the storage calls they make.                     *)
(*                                                                         *)
(* ensureParticipants (src/src/chat.ts): the members list of a thread      *)
(* document and the members the function creates.                          *)
(*                                                                         *)
(* useDocumentChanged (src/src/document-connection-scope.ts, 114-127): one *)
(* hook instance, the handles it is given and their change feeds.          *)
(*                                                                         *)
(* useRoomParticipants (src/src/document-connection-scope.ts, 129-153):    *)
(* one hook instance, the rooms it is given and their messaging events.    *)
(*                                                                         *)
(* useRoomConnection (room-connection): one hook instance, its connect()   *)
(* chain, the callbacks of room.start and the exposed dispose().           *)
(*                                                                         *)
(* useRoomIndicators (room-connection): one hook instance, the room        *)
(* messages its subscription receives and the expiry timers it starts.     *)
(*                                                                         *)
(* useChat (src/src/chat.ts, 293-391): one hook instance as it composes    *)
(* the connection, change and roster hooks: the closures its renders hand  *)
(* out, the thread documents, and the messages it appends and dispatches.  *)
(*                                                                         *)
(* Each component has its own specification; the variables of the other    *)
(* components stay at rest in it.                                          *)
(***************************************************************************)
EXTENDS Integers, Sequences, FiniteSets, TLC

\* ------------------------------------------------------------------ bounds
MaxBindings == 2          \* effect runs (mount + path changes) explored
MaxRetries  == 8          \* failures explored within one binding
MaxHandles  == 2          \* documents room.sync.open may hand out

\* ------------------------------------------------- program constants
BaseDelay   == 500        \* 500 * 2 ** retryCountRef.current
MaxDelay    == 60000      \* Math.min(60_000, ...)

Paths    == {"a.doc", "b.doc"}
Bindings == 1..MaxBindings
Handles  == 1..MaxHandles
Null     == 0             \* null document / null error / null timeout id

VARIABLES
    mounted,           \* the component is mounted (setState has an effect)
    cur,               \* the binding whose effect is the current one
    path,              \* path[b]: the `path` the effect of binding b closed over
    cancelled,         \* cancelled[b]: `let cancelled` of binding b's effect
    pc,                \* pc[b]: where binding b's openDocument chain is suspended
    doc,               \* doc[b]: `const doc` of b's openDocument call while it is suspended
    schemaFileExists,  \* useState<boolean | null>: "null", "true" or "false"
    document,          \* useState<MeshDocument | null>: Null or a handle
    error,             \* useState<unknown>: Null or the binding whose attempt raised it
    openedRef,         \* useRef(false)
    retryCountRef,     \* useRef(0)
    timeoutRef,        \* useRef(null): Null or the binding that owns the timer id
    timerDelay,        \* timerDelay[b]: delay of b's pending setTimeout, 0 if none
    hstate,            \* hstate[h]: "unused", "open" or "closed" (room.sync side)
    hpath,             \* hpath[h]: the path handle h was opened for
    hrecv,             \* hrecv[h]: "live"/"late": h was received before/after its binding's teardown
    schemaResult,      \* schemaResult[b]: outcome of storage.exists in b's current attempt
    consecFails,       \* consecFails[b]: failed attempts of b since its last successful
                       \* open: 0, 1, or 2 for two or more
    nConnected,        \* nConnected[h]: onConnected invocations that received handle h
    out                \* calls and callbacks issued by the latest step

\* subscribe()
VARIABLES
    loopPc,            \* the async loop: "none", "awaiting" (suspended on the race, not
                       \* settled), "ready" (race settled, continuation queued), "exited"
    raceResult,        \* what settled Promise.race first: "none", "value", "done",
                       \* "raise" (nextP) or "abort" (abortP)
    aborted,           \* controller.signal.aborted
    listeners,         \* "abort" listeners attached to controller.signal
    pullPending,       \* it.next() was called and its promise has not settled
    itReturned,        \* it.return() was called
    yielded,           \* values the source has yielded
    nNext,             \* invocations of next
    nError,            \* invocations of error
    nComplete          \* invocations of complete

\* MeshagentFileUpload
VARIABLES
    status,            \* _status
    bytesUploaded,     \* _bytesUploaded
    done,              \* the _done promise: "pending", "resolved", "rejected"
    downloadUrl,       \* the _downloadUrl promise: "pending", "resolved", "rejected"
    upPc,              \* upPc[r]: where _upload() run r is suspended
    handle,            \* handle[r]: the handle storage.open gave run r: "none", "open", "closed"
    closeCalls,        \* closeCalls[r]: storage.close calls made by run r
    chunk,             \* chunk[r]: length of the chunk run r is writing, 0 if none
    raising,           \* raising[r]: the call whose failure run r is propagating or has
                       \* caught: "none", "open", "write", "source", "close", "url"
    srcDone,           \* the dataStream generator has finished
    srcBytes,          \* summed length of the chunks dataStream has yielded
    lastStart,         \* how the latest startUpload() call ended: "none", "returned", "threw"
    unhandled          \* an _upload() promise was rejected with nobody holding it

\* ensureParticipants
VARIABLES
    members,           \* the `name` attributes of the members node's children, in order
    participants,      \* `name` attributes of the `participants` argument
    localName,         \* `name` attribute of room.localParticipant
    includeLocal,      \* includeLocalParticipant
    participantNames,  \* the `participantNames` argument
    runs,              \* calls of ensureParticipants made with these arguments
    created            \* createChildElement calls made by the latest call

docVars == <<mounted, cur, path, cancelled, pc, doc, schemaFileExists, document,
             error, openedRef, retryCountRef, timeoutRef, timerDelay, hstate,
             hpath, hrecv, schemaResult, consecFails, nConnected>>

subVars == <<loopPc, raceResult, aborted, listeners, pullPending, itReturned,
             yielded, nNext, nError, nComplete>>

upVars == <<status, bytesUploaded, done, downloadUrl, upPc, handle, closeCalls,
            chunk, raising, srcDone, srcBytes, lastStart, unhandled>>

memVars == <<members, participants, localName, includeLocal, participantNames,
             runs, created>>

\* useRoomParticipants
VARIABLES
    rpMounted,         \* the component is mounted
    rpRoom,            \* the `room` the current effect closed over: Null or a room
    rpChanges,         \* changes of the `room` prop so far
    live,              \* live[r]: room r's messaging.remoteParticipants
    lst,               \* lst[r][e]: updateParticipants closures registered on room r
                       \* for event e
    roster             \* useState: `participants`

rosterVars == <<rpMounted, rpRoom, rpChanges, live, lst, roster>>

\* useDocumentChanged
VARIABLES
    chMounted,         \* the component is mounted
    chDoc,             \* the `document` the current effect closed over: Null or a handle
    chChanges,         \* changes of the `document` prop so far
    feed,              \* feed[h]: change notifications handle h has delivered
    subs,              \* subs[h]: active document.listen subscriptions of the hook on h
    chSince,           \* feed[chDoc] when the current effect ran
    chLog              \* the onChanged invocations since the current effect ran:
                       \* 0 for the call on attach, the notification's number otherwise

chgVars == <<chMounted, chDoc, chChanges, feed, subs, chSince, chLog>>

\* useRoomIndicators
VARIABLES
    inMounted,         \* the component is mounted
    inPath,            \* the `path` the current effect closed over
    inChanges,         \* changes of the `path` prop so far
    stalePath,         \* "none", or the path of a torn-down subscription whose loop had
                       \* pulled an event that its continuation has not handled yet
    typingMap,         \* typingMap.current: per sender, ms left on its timer or NoTimer
    thinkingMap,       \* thinkingMap.current: per sender, ms left on its timer or NoTimer
    typing,            \* useState(false)
    thinking           \* useState(false)

indVars == <<inMounted, inPath, inChanges, stalePath, typingMap, thinkingMap,
             typing, thinking>>

\* useRoomConnection
VARIABLES
    rcMounted,         \* the component is mounted
    rcCancelled,       \* `let cancelled` of the effect
    rcPc,              \* where connect() is suspended: "auth", "start", "enable", or "end"
    rcState,           \* useState: 'authorizing', 'connecting', 'ready', 'done'
    rcReady,           \* useState(false)
    rcError,           \* useState(null): "none", "caught" (catch block) or "onError"
    rcClient,          \* useState/clientRef: "none", "live" or "disposed"
    rcEnable,          \* the enableMessaging option
    rcClosed           \* the room has called onDone or onError

connVars == <<rcMounted, rcCancelled, rcPc, rcState, rcReady, rcError, rcClient,
              rcEnable, rcClosed>>

\* useChat
VARIABLES
    ctBinding,         \* effect runs of the connection hook so far (one per `path`)
    ctPc,              \* the current binding: "none", "opening" or "connected"
    ctDoc,             \* `document` returned by useDocumentConnection: Null or a document
    ctInitial,         \* an initialMessage is configured
    onConnDoc,         \* the `document` closed over by the sendMessage that the current
                       \* binding's onConnected calls
    firstConn,         \* the document of the first successful connection, or Null
    docMembers,        \* docMembers[d]: the names in document d's members node
    hasThread,         \* hasThread[d]: document d has a messages node
    nInitial,          \* nInitial[d]: message elements for the initialMessage in d
    nUser,             \* nUser[d]: message elements appended to d by sendMessage calls
    documentMembers,   \* useState: "array" (the initial []), or the generator object of
                       \* getParticipantNames(doc): "fresh" or "consumed"
    ctRoster,          \* roomParticipants: names of the live remote participants
    online,            \* useMemo: onlineParticipants, by name
    ctSent             \* what the latest sendMessage call by the consumer did

chatVars == <<ctBinding, ctPc, ctDoc, ctInitial, onConnDoc, firstConn, docMembers,
              hasThread, nInitial, nUser, documentMembers, ctRoster, online, ctSent>>

\* useDocumentConnection: the `room` prop
VARIABLES
    room               \* the `room` of the latest render: a room id

roomVars == <<room>>

\* the components added after the first four
restVars == <<rosterVars, chgVars, indVars, connVars, chatVars, roomVars>>

coreVars == <<docVars, subVars, upVars, memVars>>

\* every variable but one component's
exceptRoster == <<coreVars, chgVars, indVars, connVars, chatVars, roomVars>>
exceptChg == <<coreVars, rosterVars, indVars, connVars, chatVars, roomVars>>
exceptInd == <<coreVars, rosterVars, chgVars, connVars, chatVars, roomVars>>
exceptConn == <<coreVars, rosterVars, chgVars, indVars, chatVars, roomVars>>
exceptChat == <<coreVars, rosterVars, chgVars, indVars, connVars, roomVars>>
exceptRoom == <<coreVars, rosterVars, chgVars, indVars, connVars, chatVars>>

vars == <<docVars, subVars, upVars, memVars, restVars, out>>

\* ----------------------------------------------------------------- helpers
Min(a, b) == IF a < b THEN a ELSE b

RECURSIVE Pow2(_)
Pow2(n) == IF n = 0 THEN 1 ELSE 2 * Pow2(n - 1)

\* const delay = Math.min(60_000, 500 * 2 ** retryCountRef.current)
Delay(n) == Min(MaxDelay, BaseDelay * Pow2(n))

\* a React state setter: ignored once the component is unmounted
SetState(new, old) == IF mounted THEN new ELSE old

Call(op, b, arg) == [op |-> op, b |-> b, arg |-> arg]

\* loading: document === null && error == null
loading == document = Null /\ error = Null

\* schemaFileExists: schemaFileExists !== null ? schemaFileExists : true
ExposedSchemaFileExists ==
    IF schemaFileExists # "null" THEN schemaFileExists = "true" ELSE TRUE

\* the handle room.sync.open resolves with: a document not handed out before
FreshHandle == CHOOSE h \in Handles :
                  /\ hstate[h] = "unused"
                  /\ \A g \in Handles : hstate[g] = "unused" => h <= g

\* failures are explored up to MaxRetries per binding
CanFail(b) == cancelled[b] \/ retryCountRef < MaxRetries

\* no subscribe() call has been made
SubIdle ==
    /\ loopPc = "none"
    /\ raceResult = "none"
    /\ aborted = FALSE
    /\ listeners = 0
    /\ pullPending = FALSE
    /\ itReturned = FALSE
    /\ yielded = 0
    /\ nNext = 0
    /\ nError = 0
    /\ nComplete = 0

\* no upload object has been constructed
UpIdle ==
    /\ status = "none"
    /\ bytesUploaded = 0
    /\ done = "pending"
    /\ downloadUrl = "pending"
    /\ upPc = <<>>
    /\ handle = <<>>
    /\ closeCalls = <<>>
    /\ chunk = <<>>
    /\ raising = <<>>
    /\ srcDone = FALSE
    /\ srcBytes = 0
    /\ lastStart = "none"
    /\ unhandled = FALSE

\* no thread document is being edited
MemIdle ==
    /\ members = <<>>
    /\ participants = <<>>
    /\ localName = "none"
    /\ includeLocal = FALSE
    /\ participantNames = <<>>
    /\ runs = 0
    /\ created = 0

\* no useRoomParticipants instance is mounted
RosterIdle ==
    /\ rpMounted = FALSE
    /\ rpRoom = 0
    /\ rpChanges = 0
    /\ live = <<>>
    /\ lst = <<>>
    /\ roster = {}

\* no useDocumentChanged instance is mounted
ChgIdle ==
    /\ chMounted = FALSE
    /\ chDoc = 0
    /\ chChanges = 0
    /\ feed = <<>>
    /\ subs = <<>>
    /\ chSince = 0
    /\ chLog = <<>>

\* no useRoomIndicators instance is mounted
IndIdle ==
    /\ inMounted = FALSE
    /\ inPath = "none"
    /\ inChanges = 0
    /\ stalePath = "none"
    /\ typingMap = <<>>
    /\ thinkingMap = <<>>
    /\ typing = FALSE
    /\ thinking = FALSE

\* no useRoomConnection instance is mounted
ConnIdle ==
    /\ rcMounted = FALSE
    /\ rcCancelled = FALSE
    /\ rcPc = "none"
    /\ rcState = "authorizing"
    /\ rcReady = FALSE
    /\ rcError = "none"
    /\ rcClient = "none"
    /\ rcEnable = FALSE
    /\ rcClosed = FALSE

\* no useChat instance is mounted
ChatIdle ==
    /\ ctBinding = 0
    /\ ctPc = "none"
    /\ ctDoc = 0
    /\ ctInitial = FALSE
    /\ onConnDoc = 0
    /\ firstConn = 0
    /\ docMembers = <<>>
    /\ hasThread = <<>>
    /\ nInitial = <<>>
    /\ nUser = <<>>
    /\ documentMembers = "array"
    /\ ctRoster = {}
    /\ online = {}
    /\ ctSent = <<>>

\* the `room` prop has the value the hook was mounted with
RoomIdle ==
    /\ room = 1

RestIdle ==
    /\ RosterIdle
    /\ ChgIdle
    /\ IndIdle
    /\ ConnIdle
    /\ ChatIdle
    /\ RoomIdle

TypeOK ==
    /\ mounted \in BOOLEAN
    /\ cur \in Bindings
    /\ path \in [Bindings -> Paths \cup {"none"}]
    /\ cancelled \in [Bindings -> BOOLEAN]
    /\ pc \in [Bindings -> {"none", "exists", "open", "settle", "timer",
                            "noSchema", "connected", "cancelledReturn",
                            "threw", "cleared"}]
    /\ doc \in [Bindings -> Handles \cup {Null}]
    /\ schemaFileExists \in {"null", "true", "false"}
    /\ document \in Handles \cup {Null}
    /\ error \in Bindings \cup {Null}
    /\ openedRef \in BOOLEAN
    /\ retryCountRef \in 0..MaxRetries
    /\ timeoutRef \in Bindings \cup {Null}
    /\ timerDelay \in [Bindings -> 0..MaxDelay]
    /\ hstate \in [Handles -> {"unused", "open", "closed"}]
    /\ hpath \in [Handles -> Paths \cup {"none"}]
    /\ hrecv \in [Handles -> {"none", "live", "late"}]
    /\ schemaResult \in [Bindings -> {"none", "true", "false", "raise"}]
    /\ consecFails \in [Bindings -> 0..2]
    /\ nConnected \in [Handles -> 0..2]

\* ------------------------------------------------------------------- Init
\* first render and first effect run: openDocument() has called
\* room.storage.exists(schemaFile) and is suspended on it
Init ==
    /\ mounted = TRUE
    /\ cur = 1
    /\ \E p \in Paths : path = [b \in Bindings |-> IF b = 1 THEN p ELSE "none"]
    /\ cancelled = [b \in Bindings |-> FALSE]
    /\ pc = [b \in Bindings |-> IF b = 1 THEN "exists" ELSE "none"]
    /\ doc = [b \in Bindings |-> Null]
    /\ schemaFileExists = "null"
    /\ document = Null
    /\ error = Null
    /\ openedRef = FALSE
    /\ retryCountRef = 0
    /\ timeoutRef = Null
    /\ timerDelay = [b \in Bindings |-> 0]
    /\ hstate = [h \in Handles |-> "unused"]
    /\ hpath = [h \in Handles |-> "none"]
    /\ hrecv = [h \in Handles |-> "none"]
    /\ schemaResult = [b \in Bindings |-> "none"]
    /\ consecFails = [b \in Bindings |-> 0]
    /\ nConnected = [h \in Handles |-> 0]
    /\ out = <<Call("storage.exists", 1, 0)>>
    /\ SubIdle
    /\ UpIdle
    /\ MemIdle
    /\ RestIdle

\* ------------------------------------------------------------ catch (err)
\* a catch block that stops retrying after the second failure
Catch_GivesUp(b, cbThrows, pre, errNow) ==
    IF cancelled[b]
    THEN /\ pc' = [pc EXCEPT ![b] = "cancelledReturn"]
         /\ error' = errNow
         /\ out' = pre
         /\ UNCHANGED <<retryCountRef, timeoutRef, timerDelay, consecFails>>
    ELSE /\ error' = SetState(b, errNow)
         /\ consecFails' = [consecFails EXCEPT ![b] = Min(2, @ + 1)]
         /\ IF cbThrows
            THEN /\ pc' = [pc EXCEPT ![b] = "threw"]
                 /\ out' = pre \o <<Call("onError", b, 0)>>
                 /\ UNCHANGED <<retryCountRef, timeoutRef, timerDelay>>
            ELSE IF retryCountRef >= 2
            THEN /\ pc' = [pc EXCEPT ![b] = "cleared"]
                 /\ out' = pre \o <<Call("onError", b, 0)>>
                 /\ UNCHANGED <<retryCountRef, timeoutRef, timerDelay>>
            ELSE /\ retryCountRef' = retryCountRef + 1
                 /\ timeoutRef' = b
                 /\ timerDelay' = [timerDelay EXCEPT ![b] = Delay(retryCountRef)]
                 /\ pc' = [pc EXCEPT ![b] = "timer"]
                 /\ out' = pre \o <<Call("onError", b, 0),
                                    Call("setTimeout", b, Delay(retryCountRef))>>

\* a catch block that forgets setError(err)
Catch_NoSetError(b, cbThrows, pre, errNow) ==
    IF cancelled[b]
    THEN /\ pc' = [pc EXCEPT ![b] = "cancelledReturn"]
         /\ error' = errNow
         /\ out' = pre
         /\ UNCHANGED <<retryCountRef, timeoutRef, timerDelay, consecFails>>
    ELSE /\ error' = errNow
         /\ consecFails' = [consecFails EXCEPT ![b] = Min(2, @ + 1)]
         /\ IF cbThrows
            THEN /\ pc' = [pc EXCEPT ![b] = "threw"]
                 /\ out' = pre \o <<Call("onError", b, 0)>>
                 /\ UNCHANGED <<retryCountRef, timeoutRef, timerDelay>>
            ELSE /\ retryCountRef' = retryCountRef + 1
                 /\ timeoutRef' = b
                 /\ timerDelay' = [timerDelay EXCEPT ![b] = Delay(retryCountRef)]
                 /\ pc' = [pc EXCEPT ![b] = "timer"]
                 /\ out' = pre \o <<Call("onError", b, 0),
                                    Call("setTimeout", b, Delay(retryCountRef))>>

\* The catch block of openDocument, entered by binding b after the calls
\* `pre` of the same step, with `errNow` the error state at that point.
\* cbThrows: onError raises, so the async function rejects before the
\* retry is scheduled.
Catch(b, cbThrows, pre, errNow) ==
    IF cancelled[b]
    THEN /\ pc' = [pc EXCEPT ![b] = "cancelledReturn"]
         /\ error' = errNow
         /\ out' = pre
         /\ UNCHANGED <<retryCountRef, timeoutRef, timerDelay, consecFails>>
    ELSE /\ error' = SetState(b, errNow)
         /\ consecFails' = [consecFails EXCEPT ![b] = Min(2, @ + 1)]
         /\ IF cbThrows
            THEN /\ pc' = [pc EXCEPT ![b] = "threw"]
                 /\ out' = pre \o <<Call("onError", b, 0)>>
                 /\ UNCHANGED <<retryCountRef, timeoutRef, timerDelay>>
            ELSE /\ retryCountRef' = retryCountRef + 1
                 /\ timeoutRef' = b
                 /\ timerDelay' = [timerDelay EXCEPT ![b] = Delay(retryCountRef)]
                 /\ pc' = [pc EXCEPT ![b] = "timer"]
                 /\ out' = pre \o <<Call("onError", b, 0),
                                    Call("setTimeout", b, Delay(retryCountRef))>>

\* --------------------------------------------- room.storage.exists settles
ExistsTrue(b) ==
    /\ pc[b] = "exists"
    /\ schemaFileExists' = SetState("true", schemaFileExists)
    /\ schemaResult' = [schemaResult EXCEPT ![b] = "true"]
    /\ pc' = [pc EXCEPT ![b] = "open"]
    /\ out' = <<Call("sync.open", b, 0)>>
    /\ UNCHANGED <<subVars, upVars, memVars, restVars>>
    /\ UNCHANGED <<mounted, cur, path, cancelled, doc, document, error,
                   openedRef, retryCountRef, timeoutRef, timerDelay, hstate,
                   hpath, hrecv, consecFails, nConnected>>

ExistsFalse(b) ==
    /\ pc[b] = "exists"
    /\ schemaFileExists' = SetState("false", schemaFileExists)
    /\ schemaResult' = [schemaResult EXCEPT ![b] = "false"]
    /\ pc' = [pc EXCEPT ![b] = "noSchema"]
    /\ out' = <<>>
    /\ UNCHANGED <<subVars, upVars, memVars, restVars>>
    /\ UNCHANGED <<mounted, cur, path, cancelled, doc, document, error,
                   openedRef, retryCountRef, timeoutRef, timerDelay, hstate,
                   hpath, hrecv, consecFails, nConnected>>

ExistsRaise(b) ==
    /\ pc[b] = "exists"
    /\ CanFail(b)
    /\ schemaResult' = [schemaResult EXCEPT ![b] = "raise"]
    /\ \E cbThrows \in BOOLEAN : Catch(b, cbThrows, <<>>, error)
    /\ UNCHANGED <<subVars, upVars, memVars, restVars>>
    /\ UNCHANGED <<mounted, cur, path, cancelled, doc, schemaFileExists,
                   document, openedRef, hstate, hpath, hrecv, nConnected>>

\* ---------------------------------------------------- room.sync.open settles
\* an open continuation without the `if (cancelled) return` guard
OpenOk_NoCancelledCheck(b) ==
    /\ pc[b] = "open"
    /\ \E h \in Handles : hstate[h] = "unused"
    /\ hstate' = [hstate EXCEPT ![FreshHandle] = "open"]
    /\ hpath' = [hpath EXCEPT ![FreshHandle] = path[b]]
    /\ hrecv' = [hrecv EXCEPT ![FreshHandle] =
                     IF cancelled[b] THEN "late" ELSE "live"]
    /\ doc' = [doc EXCEPT ![b] = FreshHandle]
    /\ openedRef' = TRUE
    /\ consecFails' = [consecFails EXCEPT ![b] = 0]
    /\ pc' = [pc EXCEPT ![b] = "settle"]
    /\ out' = <<>>
    /\ UNCHANGED <<subVars, upVars, memVars, restVars>>
    /\ UNCHANGED <<mounted, cur, path, cancelled, schemaFileExists, document,
                   error, retryCountRef, timeoutRef, timerDelay, schemaResult,
                   nConnected>>

OpenOk(b) ==
    /\ pc[b] = "open"
    /\ \E h \in Handles : hstate[h] = "unused"
    /\ hstate' = [hstate EXCEPT ![FreshHandle] = "open"]
    /\ hpath' = [hpath EXCEPT ![FreshHandle] = path[b]]
    /\ hrecv' = [hrecv EXCEPT ![FreshHandle] =
                     IF cancelled[b] THEN "late" ELSE "live"]
    /\ IF cancelled[b]
       THEN /\ pc' = [pc EXCEPT ![b] = "cancelledReturn"]
            /\ UNCHANGED <<openedRef, doc, consecFails>>
       ELSE /\ openedRef' = TRUE
            /\ doc' = [doc EXCEPT ![b] = FreshHandle]
            /\ consecFails' = [consecFails EXCEPT ![b] = 0]
            /\ pc' = [pc EXCEPT ![b] = "settle"]
    /\ out' = <<>>
    /\ UNCHANGED <<subVars, upVars, memVars, restVars>>
    /\ UNCHANGED <<mounted, cur, path, cancelled, schemaFileExists, document,
                   error, retryCountRef, timeoutRef, timerDelay, schemaResult,
                   nConnected>>

OpenFail(b) ==
    /\ pc[b] = "open"
    /\ CanFail(b)
    /\ \E cbThrows \in BOOLEAN : Catch(b, cbThrows, <<>>, error)
    /\ UNCHANGED <<subVars, upVars, memVars, restVars>>
    /\ UNCHANGED <<mounted, cur, path, cancelled, doc, schemaFileExists,
                   document, openedRef, hstate, hpath, hrecv, schemaResult,
                   nConnected>>

\* ------------------------------------- the 100 ms settle delay has elapsed
Settle(b) ==
    /\ pc[b] = "settle"
    /\ document' = SetState(doc[b], document)
    /\ nConnected' = [nConnected EXCEPT ![doc[b]] = Min(2, @ + 1)]
    /\ doc' = [doc EXCEPT ![b] = Null]
    /\ \/ /\ pc' = [pc EXCEPT ![b] = "connected"]
          /\ error' = SetState(Null, error)
          /\ out' = <<Call("onConnected", b, doc[b])>>
          /\ UNCHANGED <<retryCountRef, timeoutRef, timerDelay, consecFails>>
       \/ /\ CanFail(b)
          /\ \E cbThrows \in BOOLEAN :
                Catch(b, cbThrows, <<Call("onConnected", b, doc[b])>>,
                      SetState(Null, error))
    /\ UNCHANGED <<subVars, upVars, memVars, restVars>>
    /\ UNCHANGED <<mounted, cur, path, cancelled, schemaFileExists,
                   openedRef, hstate, hpath, hrecv, schemaResult>>

\* --------------------------------------------- the retry timer has expired
TimerFire(b) ==
    /\ pc[b] = "timer"
    /\ pc' = [pc EXCEPT ![b] = "exists"]
    /\ timerDelay' = [timerDelay EXCEPT ![b] = 0]
    /\ schemaResult' = [schemaResult EXCEPT ![b] = "none"]
    /\ out' = <<Call("storage.exists", b, 0)>>
    /\ UNCHANGED <<subVars, upVars, memVars, restVars>>
    /\ UNCHANGED <<mounted, cur, path, cancelled, doc, schemaFileExists,
                   document, error, openedRef, retryCountRef, timeoutRef,
                   hstate, hpath, hrecv, consecFails, nConnected>>

\* ------------------------------------------------ the effect's cleanup
\* clearTimeout(timeoutRef.current): cancels that timer if it is still pending
PcAfterCleanup ==
    IF timeoutRef # Null /\ pc[timeoutRef] = "timer"
    THEN [pc EXCEPT ![timeoutRef] = "cleared"]
    ELSE pc

TimerAfterCleanup ==
    IF timeoutRef # Null
    THEN [timerDelay EXCEPT ![timeoutRef] = 0]
    ELSE timerDelay

\* room.sync.close(path): closes what is open under that path
HstateAfterClose(p) ==
    [h \in Handles |-> IF hstate[h] = "open" /\ hpath[h] = p
                       THEN "closed" ELSE hstate[h]]

CleanupCalls ==
    (IF timeoutRef # Null THEN <<Call("clearTimeout", timeoutRef, 0)>> ELSE <<>>)
    \o (IF openedRef THEN <<Call("sync.close", cur, 0)>> ELSE <<>>)

\* the function returned by the effect, run for the current binding
Cleanup ==
    /\ cancelled' = [cancelled EXCEPT ![cur] = TRUE]
    /\ timerDelay' = TimerAfterCleanup
    /\ timeoutRef' = Null
    /\ hstate' = IF openedRef THEN HstateAfterClose(path[cur]) ELSE hstate
    /\ document' = SetState(Null, document)
    /\ retryCountRef' = 0
    /\ openedRef' = FALSE
    /\ consecFails' = [consecFails EXCEPT ![cur] = 0]

\* `path` changes: cleanup of the old effect, then the new effect runs and
\* its openDocument() calls room.storage.exists
PathChange(p) ==
    /\ mounted
    /\ cur < MaxBindings
    /\ p # path[cur]
    /\ Cleanup
    /\ cur' = cur + 1
    /\ path' = [path EXCEPT ![cur + 1] = p]
    /\ pc' = [PcAfterCleanup EXCEPT ![cur + 1] = "exists"]
    /\ out' = CleanupCalls \o <<Call("storage.exists", cur + 1, 0)>>
    /\ UNCHANGED <<subVars, upVars, memVars, restVars>>
    /\ UNCHANGED <<mounted, doc, schemaFileExists, error, hpath, hrecv,
                   schemaResult, nConnected>>

\* the component unmounts: cleanup only
Unmount ==
    /\ mounted
    /\ Cleanup
    /\ mounted' = FALSE
    /\ pc' = PcAfterCleanup
    /\ out' = CleanupCalls
    /\ UNCHANGED <<subVars, upVars, memVars, restVars>>
    /\ UNCHANGED <<cur, path, doc, schemaFileExists, error, hpath, hrecv,
                   schemaResult, nConnected>>

\* ------------------------------------------------------------------- Next
Next ==
    \/ \E b \in Bindings : ExistsTrue(b)
    \/ \E b \in Bindings : ExistsFalse(b)
    \/ \E b \in Bindings : ExistsRaise(b)
    \/ \E b \in Bindings : OpenOk(b)
    \/ \E b \in Bindings : OpenFail(b)
    \/ \E b \in Bindings : Settle(b)
    \/ \E b \in Bindings : TimerFire(b)
    \/ \E p \in Paths : PathChange(p)
    \/ Unmount

Spec == Init /\ [][Next]_vars

\* the schema check, the open and the settle delay all settle; timers expire
Fairness ==
    \A b \in Bindings :
        /\ WF_vars(TimerFire(b))
        /\ WF_vars(ExistsTrue(b) \/ ExistsFalse(b) \/ ExistsRaise(b))
        /\ WF_vars(OpenOk(b) \/ OpenFail(b))
        /\ WF_vars(Settle(b))

FairSpec == Init /\ [][Next]_vars /\ Fairness

\* the life of one binding: mount, its attempts and retries, unmount
RetryNext ==
    \/ \E b \in Bindings : ExistsTrue(b)
    \/ \E b \in Bindings : ExistsFalse(b)
    \/ \E b \in Bindings : ExistsRaise(b)
    \/ \E b \in Bindings : OpenOk(b)
    \/ \E b \in Bindings : OpenFail(b)
    \/ \E b \in Bindings : Settle(b)
    \/ \E b \in Bindings : TimerFire(b)
    \/ Unmount

RetrySpec == Init /\ [][RetryNext]_vars /\ Fairness

\* ===================================================================== claims
Issued(op, b) == \E i \in 1..Len(out) : out[i].op = op /\ out[i].b = b

OpenHandles == {h \in Handles : hstate[h] = "open"}

\* the first attempt of the current binding has not finished
FirstAttemptInFlight ==
    /\ pc[cur] \in {"exists", "open", "settle"}
    /\ retryCountRef = 0
    /\ ~cancelled[cur]

\* handle h has gone through the success path (or was dropped) completely
Settled(h) == hstate[h] # "unused" /\ \A b \in Bindings : ~(pc[b] = "settle" /\ doc[b] = h)

\* C1: once the cleanup of a binding has run, no room.sync.open call is
\* issued for that binding, whatever it was waiting on at teardown.
C1_NoOpenAfterTeardown ==
    \A b \in Bindings : Issued("sync.open", b) => ~cancelled[b]

\* C2: after N consecutive failed attempts within one binding the retry is
\* scheduled with delay min(60000, 500 * 2^(N-1)); stated for N = 1, the
\* first failure of the binding or the first one after a successful open:
\* its retry is scheduled after 500 ms.
C2_BackoffDelay ==
    \A b \in Bindings :
        (pc[b] = "timer" /\ consecFails[b] = 1) =>
            timerDelay[b] = Min(MaxDelay, BaseDelay * Pow2(1 - 1))

\* C3: whenever an open attempt of a live binding has succeeded, the retry
\* counter is 0.
C3_CounterZeroAfterSuccess ==
    \A b \in Bindings :
        (pc[b] \in {"settle", "connected"} /\ ~cancelled[b]) => retryCountRef = 0

\* C4: in a binding that is not torn down, every failed attempt (onError
\* invoked) is eventually followed by another attempt, unless the onError
\* callback itself raised; an attempt whose schema check answers "present"
\* issues room.sync.open; and a successful open is eventually published.
C4_RetriesForever ==
    /\ \A b \in Bindings :
          Issued("onError", b) ~>
              (pc[b] = "exists" \/ cancelled[b] \/ pc[b] = "threw")
    /\ \A b \in Bindings :
          (pc[b] = "exists") ~>
              (Issued("sync.open", b) \/ schemaResult[b] \in {"false", "raise"})
    /\ \A h \in Handles :
          (\E b \in Bindings : pc[b] = "settle" /\ doc[b] = h)
              ~> (document = h \/ ~mounted)

C4_Witness ==
    \E b \in Bindings :
        /\ ~cancelled[b]
        /\ pc[b] = "open"
        /\ retryCountRef >= 2

\* C5: when the schema check of a binding answers "absent", the hook reports
\* schemaFileExists=false and no document, and that binding issues no
\* room.sync.open, schedules no retry and invokes no callback.
C5_SchemaAbsentStops ==
    \A b \in Bindings :
        schemaResult[b] = "false" =>
            /\ ~Issued("sync.open", b)
            /\ ~Issued("setTimeout", b)
            /\ ~Issued("onConnected", b)
            /\ ~Issued("onError", b)
            /\ pc[b] = "noSchema"
            /\ (b = cur /\ mounted /\ ~cancelled[b]) =>
                   (ExposedSchemaFileExists = FALSE /\ document = Null)

\* C6: when room.storage.exists raises, schema presence is taken as true and
\* the attempt goes on to room.sync.open instead of counting as a failure.
C6_CheckUnavailableIsPermissive ==
    [][\A b \in Bindings :
          (pc[b] = "exists" /\ pc'[b] # "exists" /\ schemaResult'[b] = "raise"
              /\ ~cancelled[b])
          => (pc'[b] = "open" /\ ExposedSchemaFileExists'
                /\ retryCountRef' = retryCountRef)]_vars

\* C7 (as stated): onConnected is invoked exactly once for each successful
\* open.
C7_OncePerSuccessfulOpen ==
    \A h \in Handles : Settled(h) => nConnected[h] = 1

\* C7 (amended): onConnected is invoked at most once per handle, exactly once
\* for a handle received before its binding's teardown, never for a handle
\* received after it, and only with the handle its binding's open returned.
C7_OncePerLiveOpen ==
    /\ \A h \in Handles :
          /\ nConnected[h] <= 1
          /\ hstate[h] = "unused" => nConnected[h] = 0
          /\ Settled(h) => nConnected[h] = (IF hrecv[h] = "live" THEN 1 ELSE 0)
    /\ \A i \in 1..Len(out) :
          out[i].op = "onConnected" =>
              (hrecv[out[i].arg] = "live" /\ nConnected[out[i].arg] = 1)

C7_Witness ==
    \E h, g \in Handles :
        /\ Settled(h) /\ hrecv[h] = "live" /\ nConnected[h] = 1
        /\ Settled(g) /\ hrecv[g] = "late" /\ nConnected[g] = 0

\* C8 (as stated): before the first successful open of a binding, loading
\* is still true while the retry that follows a failed room.sync.open is
\* pending.
C8_LoadingUntilFirstSuccess ==
    (mounted /\ ~cancelled[cur] /\ ~openedRef
        /\ schemaResult[cur] = "true" /\ pc[cur] = "timer") => loading

\* C8 (amended): a failed attempt of the current binding records its error,
\* so loading is false throughout the retries that follow it, also before
\* the first successful open.
C8_LoadingFalseWhileRetrying ==
    (mounted /\ ~cancelled[cur] /\ retryCountRef >= 1) => ~loading

C8_Witness ==
    /\ mounted /\ ~cancelled[cur] /\ ~openedRef
    /\ retryCountRef >= 2
    /\ pc[cur] = "open"
    /\ ~loading

\* C9: loading is true exactly while the first attempt of the current
\* binding is in flight; stated here is its second half: loading=false
\* implies that the first attempt of the current binding has finished.
C9_LoadingIffFirstAttempt ==
    (mounted /\ ~loading) => ~FirstAttemptInFlight

\* C10: at most one handle obtained by the instance is open at any time, and
\* none is open when a room.sync.open is issued.
C10_AtMostOneOpenHandle ==
    /\ Cardinality(OpenHandles) <= 1
    /\ (\E b \in Bindings : Issued("sync.open", b)) => OpenHandles = {}

\* C29: once a binding is torn down, the steps of its attempt change neither
\* the exposed document nor the exposed error and invoke neither onConnected
\* nor onError
C29_NoOpAfterTeardown ==
    [][\A b \in Bindings :
          (cancelled[b] /\ pc'[b] # pc[b])
             => /\ document' = document
                /\ error' = error
                /\ \A i \in 1..Len(out') :
                      out'[i].b = b => out'[i].op \notin {"onConnected", "onError"}]_vars

\* C30: at no time are two room.sync.open calls of the instance in flight
C30_OpensSequential ==
    Cardinality({b \in Bindings : pc[b] = "open"}) <= 1

\* C39: the exposed error is one raised by an attempt of the current
\* binding, and right after a path change error is absent and loading true
C39_ErrorOfCurrentPath ==
    /\ []((mounted /\ error # Null) => error = cur)
    /\ [][cur' # cur => (error' = Null /\ loading')]_vars

\* ============================================================== subscribe
\* src/src/subscribe-async-gen.ts

MaxItems == 4             \* values the source yields before it ends

\* callback behaviours: returns, raises, or calls unsubscribe() and returns
CallbackKinds == {"ok", "throws", "unsub"}

\* no hook instance is mounted
DocIdle ==
    /\ mounted = FALSE
    /\ cur = 1
    /\ path = [b \in Bindings |-> "none"]
    /\ cancelled = [b \in Bindings |-> FALSE]
    /\ pc = [b \in Bindings |-> "none"]
    /\ doc = [b \in Bindings |-> Null]
    /\ schemaFileExists = "null"
    /\ document = Null
    /\ error = Null
    /\ openedRef = FALSE
    /\ retryCountRef = 0
    /\ timeoutRef = Null
    /\ timerDelay = [b \in Bindings |-> 0]
    /\ hstate = [h \in Handles |-> "unused"]
    /\ hpath = [h \in Handles |-> "none"]
    /\ hrecv = [h \in Handles |-> "none"]
    /\ schemaResult = [b \in Bindings |-> "none"]
    /\ consecFails = [b \in Bindings |-> 0]
    /\ nConnected = [h \in Handles |-> 0]

CoreIdle == DocIdle /\ SubIdle /\ UpIdle /\ MemIdle

\* every component but one at rest
IdleExceptRoster == CoreIdle /\ ChgIdle /\ IndIdle /\ ConnIdle /\ ChatIdle /\ RoomIdle
IdleExceptChg == CoreIdle /\ RosterIdle /\ IndIdle /\ ConnIdle /\ ChatIdle /\ RoomIdle
IdleExceptInd == CoreIdle /\ RosterIdle /\ ChgIdle /\ ConnIdle /\ ChatIdle /\ RoomIdle
IdleExceptConn == CoreIdle /\ RosterIdle /\ ChgIdle /\ IndIdle /\ ChatIdle /\ RoomIdle
IdleExceptChat == CoreIdle /\ RosterIdle /\ ChgIdle /\ IndIdle /\ ConnIdle /\ RoomIdle
IdleExceptRoom == CoreIdle /\ RosterIdle /\ ChgIdle /\ IndIdle /\ ConnIdle /\ ChatIdle

\* 1 if the signal was already aborted when a callback was invoked
Flag(b) == IF b THEN 1 ELSE 0

\* number of calls of `op` in a sequence of calls
Count(op, calls) == Cardinality({i \in 1..Len(calls) : calls[i].op = op})

\* subscribe() has returned: the loop made its first abortableNext call
\* (it.next() called, one abort listener added) and is suspended on the race
SubInit ==
    /\ DocIdle
    /\ UpIdle
    /\ MemIdle
    /\ RestIdle
    /\ loopPc = "awaiting"
    /\ raceResult = "none"
    /\ aborted = FALSE
    /\ listeners = 1
    /\ pullPending = TRUE
    /\ itReturned = FALSE
    /\ yielded = 0
    /\ nNext = 0
    /\ nError = 0
    /\ nComplete = 0
    /\ out = <<Call("it.next", 0, 0)>>

\* the source settles the pending it.next(): a value, the end, or an error.
\* It settles the race unless abortP settled it before.
SourceSettles(kind) ==
    /\ pullPending
    /\ kind = "value" => yielded < MaxItems
    /\ pullPending' = FALSE
    /\ yielded' = IF kind = "value" THEN yielded + 1 ELSE yielded
    /\ IF loopPc = "awaiting"
          THEN loopPc' = "ready" /\ raceResult' = kind
          ELSE UNCHANGED <<loopPc, raceResult>>
    /\ out' = <<>>
    /\ UNCHANGED <<aborted, listeners, itReturned, nNext, nError, nComplete>>
    /\ UNCHANGED <<docVars, upVars, memVars, restVars>>

\* an abort that only sets the flag: no listener rejects the race
Unsubscribe_NoRace ==
    /\ loopPc # "none"
    /\ ~aborted
    /\ aborted' = TRUE
    /\ out' = <<Call("abort", 0, 0)>>
    /\ UNCHANGED <<loopPc, raceResult, listeners, pullPending, itReturned,
                   yielded, nNext, nError, nComplete>>
    /\ UNCHANGED <<docVars, upVars, memVars, restVars>>

\* unsubscribe(): controller.abort(). The once-listeners run and are removed;
\* each rejects its abortP, which settles the race if nextP has not.
Unsubscribe ==
    /\ loopPc # "none"
    /\ ~aborted
    /\ aborted' = TRUE
    /\ listeners' = 0
    /\ IF loopPc = "awaiting"
          THEN loopPc' = "ready" /\ raceResult' = "abort"
          ELSE UNCHANGED <<loopPc, raceResult>>
    /\ out' = <<Call("abort", 0, 0)>>
    /\ UNCHANGED <<pullPending, itReturned, yielded, nNext, nError, nComplete>>
    /\ UNCHANGED <<docVars, upVars, memVars, restVars>>

\* the callbacks lines 26-38 invoke when the continuation runs, in order;
\* cb is what the first of them does
ResumeCalls(cb) ==
    CASE raceResult = "value" ->
             <<Call("next", 0, Flag(aborted))>>
             \o (IF cb = "throws" /\ ~aborted THEN <<Call("error", 0, 0)>> ELSE <<>>)
      [] raceResult = "done" ->
             IF aborted THEN <<>>
             ELSE <<Call("complete", 0, 0)>>
                  \o (IF cb = "throws" THEN <<Call("error", 0, 0)>> ELSE <<>>)
      [] raceResult = "raise" ->
             IF aborted THEN <<>> ELSE <<Call("error", 0, 0)>>
      [] OTHER -> <<>>

\* the continuation of `await abortableNext(...)` runs (lines 26-38)
Resume(cb) ==
    /\ loopPc = "ready"
    /\ LET calls == ResumeCalls(cb)
           abortedNow == aborted \/ (cb = "unsub" /\ calls # <<>>)
           again == raceResult = "value" /\ cb = "ok" /\ ~aborted
       IN /\ nNext' = nNext + Count("next", calls)
          /\ nError' = nError + Count("error", calls)
          /\ nComplete' = nComplete + Count("complete", calls)
          /\ aborted' = abortedNow
          /\ loopPc' = IF again THEN "awaiting" ELSE "exited"
          /\ raceResult' = IF again THEN "none" ELSE raceResult
          /\ pullPending' = (again \/ pullPending)
          /\ listeners' = IF abortedNow THEN 0
                          ELSE IF again THEN listeners + 1 ELSE listeners
          /\ out' = calls \o (IF again THEN <<Call("it.next", 0, 0)>> ELSE <<>>)
    /\ UNCHANGED <<itReturned, yielded>>
    /\ UNCHANGED <<docVars, upVars, memVars, restVars>>

SubNext ==
    \/ \E kind \in {"value", "done", "raise"} : SourceSettles(kind)
    \/ Unsubscribe
    \/ \E cb \in CallbackKinds : Resume(cb)

\* a settled promise's continuation is run: the microtask queue drains
SubSpec == SubInit /\ [][SubNext]_vars /\ WF_vars(\E cb \in CallbackKinds : Resume(cb))

\* C11: once unsubscribe() has been called, none of next, error and complete
\* is invoked, whatever the source had already produced
C11_NoCallbackAfterUnsubscribe ==
    \A i \in 1..Len(out) :
        out[i].op \in {"next", "error", "complete"} => out[i].arg = 0

\* C12: error plus complete are invoked at most once in every run, and a
\* source that ends without unsubscribe gets exactly one of them: complete
\* if it ended normally, error if it raised
C12_AtMostOneTerminal ==
    /\ nError + nComplete <= 1
    /\ (loopPc = "exited" /\ ~aborted) => nError + nComplete = 1
    /\ (loopPc = "exited" /\ ~aborted /\ raceResult = "done") => nComplete = 1
    /\ (loopPc = "exited" /\ ~aborted /\ raceResult = "raise") => nError = 1

\* C13: after unsubscribe() the loop terminates even if the pending pull
\* never resolves, and a loop ended by the abort has invoked neither
\* complete nor error
C13_AbortEndsBlockedLoop ==
    /\ aborted ~> (loopPc = "exited")
    /\ [](raceResult = "abort" => nError + nComplete = 0)

\* the loop was ended by unsubscribe() while its pull is still unresolved
C13_Witness ==
    /\ loopPc = "exited"
    /\ raceResult = "abort"
    /\ pullPending
    /\ nError + nComplete = 0

\* C14: once the loop has exited after unsubscribe(), the iterator has been
\* released (its return() has run) and no abort listener is still attached
C14_ReleasedAfterUnsubscribe ==
    (loopPc = "exited" /\ aborted) => (itReturned /\ listeners = 0)

\* ==================================================== MeshagentFileUpload
\* src/unnamed/part_004

MaxRuns  == 2             \* _upload() runs started on one upload object
MaxBytes == 3             \* summed length of the chunks dataStream yields

Runs      == 1..MaxRuns
ChunkLens == {1, 2}       \* chunk.length of a yielded chunk

\* resolving or rejecting a promise that is already settled has no effect
Resolve(p) == IF p = "pending" THEN "resolved" ELSE p
Reject(p)  == IF p = "pending" THEN "rejected" ELSE p

\* the run a call of _upload() becomes
NewRun == CHOOSE r \in Runs :
             /\ upPc[r] = "none"
             /\ \A q \in Runs : upPc[q] = "none" => r <= q

\* the constructor has returned: with autoStart it has called _upload(),
\* which passed the status test, called room.storage.open and is suspended
UpInit ==
    /\ DocIdle
    /\ SubIdle
    /\ MemIdle
    /\ RestIdle
    /\ status = "initial"
    /\ bytesUploaded = 0
    /\ done = "pending"
    /\ downloadUrl = "pending"
    /\ \E autoStart \in BOOLEAN :
          /\ upPc = [r \in Runs |-> IF autoStart /\ r = 1 THEN "open" ELSE "none"]
          /\ out = IF autoStart THEN <<Call("storage.open", 1, 0)>> ELSE <<>>
    /\ handle = [r \in Runs |-> "none"]
    /\ closeCalls = [r \in Runs |-> 0]
    /\ chunk = [r \in Runs |-> 0]
    /\ raising = [r \in Runs |-> "none"]
    /\ srcDone = FALSE
    /\ srcBytes = 0
    /\ lastStart = "none"
    /\ unhandled = FALSE

\* startUpload(): calls the async _upload() and drops its promise. With
\* status initial the run calls room.storage.open and suspends; otherwise
\* the throw of line 112 rejects the dropped promise.
StartUpload ==
    /\ status # "none"
    /\ status = "initial" => \E r \in Runs : upPc[r] = "none"
    /\ lastStart' = "returned"
    /\ IF status = "initial"
          THEN /\ upPc' = [upPc EXCEPT ![NewRun] = "open"]
               /\ out' = <<Call("startUpload", 0, 0), Call("storage.open", NewRun, 0)>>
               /\ UNCHANGED unhandled
          ELSE /\ unhandled' = TRUE
               /\ out' = <<Call("startUpload", 0, 0)>>
               /\ UNCHANGED upPc
    /\ UNCHANGED <<status, bytesUploaded, done, downloadUrl, handle, closeCalls,
                   chunk, raising, srcDone, srcBytes>>
    /\ UNCHANGED <<docVars, subVars, memVars, restVars>>

\* catch (err), lines 138-142, in run r after `op` failed
Failed(r, op) ==
    /\ status' = "failed"
    /\ done' = Reject(done)
    /\ downloadUrl' = Reject(downloadUrl)
    /\ upPc' = [upPc EXCEPT ![r] = "end"]
    /\ raising' = [raising EXCEPT ![r] = op]

\* room.storage.open resolves: status = Uploading, the for-await loop pulls
StorageOpenOk(r) ==
    /\ upPc[r] = "open"
    /\ handle' = [handle EXCEPT ![r] = "open"]
    /\ status' = "uploading"
    /\ upPc' = [upPc EXCEPT ![r] = "pull"]
    /\ out' = <<Call("dataStream.next", r, 0)>>
    /\ UNCHANGED <<bytesUploaded, done, downloadUrl, closeCalls, chunk, raising,
                   srcDone, srcBytes, lastStart, unhandled>>
    /\ UNCHANGED <<docVars, subVars, memVars, restVars>>

\* room.storage.open rejects
StorageOpenFail(r) ==
    /\ upPc[r] = "open"
    /\ Failed(r, "open")
    /\ out' = <<>>
    /\ UNCHANGED <<bytesUploaded, handle, closeCalls, chunk, srcDone, srcBytes,
                   lastStart, unhandled>>
    /\ UNCHANGED <<docVars, subVars, memVars, restVars>>

\* dataStream yields a chunk: room.storage.write(handle, chunk) is called
NextChunk(r, len) ==
    /\ upPc[r] = "pull"
    /\ ~srcDone
    /\ srcBytes + len <= MaxBytes
    /\ srcBytes' = srcBytes + len
    /\ chunk' = [chunk EXCEPT ![r] = len]
    /\ upPc' = [upPc EXCEPT ![r] = "write"]
    /\ out' = <<Call("storage.write", r, len)>>
    /\ UNCHANGED <<status, bytesUploaded, done, downloadUrl, handle, closeCalls,
                   raising, srcDone, lastStart, unhandled>>
    /\ UNCHANGED <<docVars, subVars, memVars, restVars>>

\* the finally block: room.storage.close(handle) is called
CallClose(r, op) ==
    /\ closeCalls' = [closeCalls EXCEPT ![r] = @ + 1]
    /\ raising' = [raising EXCEPT ![r] = op]
    /\ upPc' = [upPc EXCEPT ![r] = "close"]
    /\ out' = <<Call("storage.close", r, 0)>>

\* dataStream is exhausted: the loop ends, the finally block closes
SourceEnds(r) ==
    /\ upPc[r] = "pull"
    /\ srcDone' = TRUE
    /\ CallClose(r, "none")
    /\ UNCHANGED <<status, bytesUploaded, done, downloadUrl, handle, chunk,
                   srcBytes, lastStart, unhandled>>
    /\ UNCHANGED <<docVars, subVars, memVars, restVars>>

\* a source error that reaches the catch block without closing the handle
SourceRaises_NoFinally(r) ==
    /\ upPc[r] = "pull"
    /\ ~srcDone
    /\ srcDone' = TRUE
    /\ Failed(r, "source")
    /\ out' = <<>>
    /\ UNCHANGED <<bytesUploaded, handle, closeCalls, chunk, srcBytes,
                   lastStart, unhandled>>
    /\ UNCHANGED <<docVars, subVars, memVars, restVars>>

\* dataStream raises: the finally block closes, the exception propagates
SourceRaises(r) ==
    /\ upPc[r] = "pull"
    /\ ~srcDone
    /\ srcDone' = TRUE
    /\ CallClose(r, "source")
    /\ UNCHANGED <<status, bytesUploaded, done, downloadUrl, handle, chunk,
                   srcBytes, lastStart, unhandled>>
    /\ UNCHANGED <<docVars, subVars, memVars, restVars>>

\* room.storage.write resolves: the byte count grows, progress is emitted,
\* the loop pulls again
WriteOk(r) ==
    /\ upPc[r] = "write"
    /\ bytesUploaded' = bytesUploaded + chunk[r]
    /\ chunk' = [chunk EXCEPT ![r] = 0]
    /\ upPc' = [upPc EXCEPT ![r] = "pull"]
    /\ out' = <<Call("progress", r, bytesUploaded + chunk[r]),
                Call("dataStream.next", r, 0)>>
    /\ UNCHANGED <<status, done, downloadUrl, handle, closeCalls, raising,
                   srcDone, srcBytes, lastStart, unhandled>>
    /\ UNCHANGED <<docVars, subVars, memVars, restVars>>

\* room.storage.write rejects: the for-await loop closes the generator, the
\* finally block closes the handle, the exception propagates
WriteFail(r) ==
    /\ upPc[r] = "write"
    /\ chunk' = [chunk EXCEPT ![r] = 0]
    /\ srcDone' = TRUE
    /\ CallClose(r, "write")
    /\ UNCHANGED <<status, bytesUploaded, done, downloadUrl, handle, srcBytes,
                   lastStart, unhandled>>
    /\ UNCHANGED <<docVars, subVars, memVars, restVars>>

\* room.storage.close resolves: a propagating exception reaches the catch
\* block; otherwise done resolves, status = Completed, downloadUrl is asked
CloseOk(r) ==
    /\ upPc[r] = "close"
    /\ handle' = [handle EXCEPT ![r] = "closed"]
    /\ IF raising[r] # "none"
          THEN /\ Failed(r, raising[r])
               /\ out' = <<>>
          ELSE /\ done' = Resolve(done)
               /\ status' = "completed"
               /\ upPc' = [upPc EXCEPT ![r] = "url"]
               /\ out' = <<Call("storage.downloadUrl", r, 0)>>
               /\ UNCHANGED <<downloadUrl, raising>>
    /\ UNCHANGED <<bytesUploaded, closeCalls, chunk, srcDone, srcBytes,
                   lastStart, unhandled>>
    /\ UNCHANGED <<docVars, subVars, memVars, restVars>>

\* room.storage.close rejects: its error leaves the finally block
CloseFail(r) ==
    /\ upPc[r] = "close"
    /\ Failed(r, "close")
    /\ out' = <<>>
    /\ UNCHANGED <<bytesUploaded, handle, closeCalls, chunk, srcDone, srcBytes,
                   lastStart, unhandled>>
    /\ UNCHANGED <<docVars, subVars, memVars, restVars>>

\* room.storage.downloadUrl resolves with a URL
UrlOk(r) ==
    /\ upPc[r] = "url"
    /\ downloadUrl' = Resolve(downloadUrl)
    /\ upPc' = [upPc EXCEPT ![r] = "end"]
    /\ out' = <<>>
    /\ UNCHANGED <<status, bytesUploaded, done, handle, closeCalls, chunk,
                   raising, srcDone, srcBytes, lastStart, unhandled>>
    /\ UNCHANGED <<docVars, subVars, memVars, restVars>>

\* room.storage.downloadUrl rejects, or new URL(urlStr) raises
UrlFail(r) ==
    /\ upPc[r] = "url"
    /\ Failed(r, "url")
    /\ out' = <<>>
    /\ UNCHANGED <<bytesUploaded, handle, closeCalls, chunk, srcDone, srcBytes,
                   lastStart, unhandled>>
    /\ UNCHANGED <<docVars, subVars, memVars, restVars>>

UpNext ==
    \/ StartUpload
    \/ \E r \in Runs : StorageOpenOk(r)
    \/ \E r \in Runs : StorageOpenFail(r)
    \/ \E r \in Runs : \E len \in ChunkLens : NextChunk(r, len)
    \/ \E r \in Runs : SourceEnds(r)
    \/ \E r \in Runs : SourceRaises(r)
    \/ \E r \in Runs : WriteOk(r)
    \/ \E r \in Runs : WriteFail(r)
    \/ \E r \in Runs : CloseOk(r)
    \/ \E r \in Runs : CloseFail(r)
    \/ \E r \in Runs : UrlOk(r)
    \/ \E r \in Runs : UrlFail(r)

UpSpec == UpInit /\ [][UpNext]_vars

\* C15: startUpload() with a status other than initial fails with an error
\* the caller receives, calls no room.storage.open, and changes neither the
\* status, nor bytesUploaded, nor the two futures
C15_SecondStartFailsLoudly ==
    [][(out' # <<>> /\ out'[1].op = "startUpload" /\ status # "initial")
          => /\ lastStart' = "threw"
             /\ \A i \in 1..Len(out') : out'[i].op # "storage.open"
             /\ UNCHANGED <<status, bytesUploaded, done, downloadUrl>>]_vars

\* C16: the status only moves initial -> uploading, uploading -> completed and
\* uploading -> failed
C16_StatusTransitions ==
    [][status' # status =>
          <<status, status'>> \in {<<"initial", "uploading">>,
                                   <<"uploading", "completed">>,
                                   <<"uploading", "failed">>}]_vars

\* C17: bytesUploaded grows with every written chunk, never decreases, and
\* when the status becomes completed it equals the summed length of the
\* chunks of the source
C17_BytesUploadedIsSum ==
    [][/\ bytesUploaded' >= bytesUploaded
       /\ (\E r \in Runs : upPc[r] = "write" /\ upPc'[r] = "pull")
             => bytesUploaded' > bytesUploaded
       /\ (status # "completed" /\ status' = "completed")
             => bytesUploaded' = srcBytes']_vars

\* C18: every handle room.storage.open gave is closed exactly once: a run
\* past its finally block has called room.storage.close once, no run calls
\* it twice, and a run without a handle never calls it
C18_HandleClosedOnce ==
    \A r \in Runs :
        /\ closeCalls[r] <= 1
        /\ handle[r] = "none" => closeCalls[r] = 0
        /\ (handle[r] # "none" /\ upPc[r] \in {"url", "end"}) => closeCalls[r] = 1

\* a run whose write failed has ended with its handle closed by one call
C18_Witness ==
    \E r \in Runs :
        /\ upPc[r] = "end"
        /\ raising[r] = "write"
        /\ handle[r] = "closed"
        /\ closeCalls[r] = 1

\* C19: once a failure of storage open, write or close has ended the upload,
\* the status is failed and done and downloadUrl are rejected; nothing is
\* thrown to the caller
C19_FailureRejectsBoth ==
    ( /\ \A r \in Runs : upPc[r] \in {"none", "end"}
      /\ \E r \in Runs : upPc[r] = "end" /\ raising[r] \in {"open", "write", "close"} )
    => /\ status = "failed"
       /\ done = "rejected"
       /\ downloadUrl = "rejected"
       /\ lastStart # "threw"

\* C32: at most one _upload() run gets past the status test, so
\* room.storage.open is called at most once and at most one loop consumes
\* the data source
C32_AtMostOneRun ==
    Cardinality({r \in Runs : upPc[r] # "none"}) <= 1

\* C33: the terminal steps of a run come in the order handle closed, done
\* resolved, status completed, download reference requested, downloadUrl
\* resolved: done is resolved only by a run whose handle is closed, the status
\* becomes completed and the download reference is requested only once done
\* is resolved, and downloadUrl is resolved only after that, by a run that
\* has requested the reference
C33_TerminalOrder ==
    /\ [](done = "resolved" => \E r \in Runs : handle[r] = "closed" /\ closeCalls[r] = 1)
    /\ [](downloadUrl = "resolved" => done = "resolved")
    /\ [][/\ (done = "pending" /\ done' = "resolved")
                => \E r \in Runs : /\ upPc[r] = "close"
                                   /\ raising[r] = "none"
                                   /\ handle'[r] = "closed"
          /\ (status # "completed" /\ status' = "completed") => done' = "resolved"
          /\ (\E i \in 1..Len(out') : out'[i].op = "storage.downloadUrl")
                => (status' = "completed" /\ done' = "resolved")
          /\ (downloadUrl = "pending" /\ downloadUrl' = "resolved")
                => \E r \in Runs : /\ upPc[r] = "url"
                                   /\ handle[r] = "closed"
                                   /\ done = "resolved"]_vars

\* C37: a failed status comes with a rejected done future, and a resolved
\* done future with the status completed
C37_StatusAgreesWithDone ==
    /\ status = "failed" => done = "rejected"
    /\ done = "resolved" => status = "completed"

\* ====================================================== ensureParticipants
\* src/src/chat.ts

MaxLen   == 2             \* length of the members list and of the argument lists
MaxCalls == 2             \* calls of ensureParticipants with the same arguments

Names  == {"", "ann", "bob"}     \* values of a `name` attribute
NoName == "<none>"               \* getAttribute("name") of an element without one

SeqsUpTo(S, n) == UNION {[1..k -> S] : k \in 0..n}

\* a JavaScript string used as a condition
Truthy(name) == name # NoName /\ name # ""

\* lines 203-208: the names of the members the node already has
ExistingNames(ms) == {ms[i] : i \in 1..Len(ms)} \ {NoName, ""}

\* lines 210-217 (truthyOnly) and 219-226 (not truthyOnly): one member is
\* created for every name that `existing` does not hold yet
RECURSIVE AddAll(_, _, _)
AddAll(st, names, truthyOnly) ==
    IF names = <<>> THEN st
    ELSE LET name == Head(names)
             add == (truthyOnly => Truthy(name)) /\ name \notin st.existing
         IN AddAll(IF add THEN [ms |-> Append(st.ms, name),
                                existing |-> st.existing \cup {name}]
                          ELSE st,
                   Tail(names), truthyOnly)

\* the members list ensureParticipants leaves behind
EnsureParticipants(ms, parts, local, incl, pnames) ==
    LET retParticipants == parts \o (IF incl THEN <<local>> ELSE <<>>)
        st0 == [ms |-> ms, existing |-> ExistingNames(ms)]
        st1 == AddAll(st0, retParticipants, TRUE)
    IN AddAll(st1, pnames, FALSE).ms

NoDuplicates(ms) == \A i, j \in 1..Len(ms) : i # j => ms[i] # ms[j]

\* a thread document whose members have distinct names, and the arguments
MemInit ==
    /\ DocIdle
    /\ SubIdle
    /\ UpIdle
    /\ RestIdle
    /\ members \in {ms \in SeqsUpTo(Names, MaxLen) : NoDuplicates(ms)}
    /\ participants \in SeqsUpTo(Names \cup {NoName}, MaxLen)
    /\ localName = "ann"
    /\ includeLocal \in BOOLEAN
    /\ participantNames \in SeqsUpTo(Names, MaxLen)
    /\ runs = 0
    /\ created = 0
    /\ out = <<>>

\* ensureParticipants(document, localParticipant, includeLocalParticipant,
\*                    participants, participantNames)
CallEnsureParticipants ==
    /\ runs < MaxCalls
    /\ LET after == EnsureParticipants(members, participants, localName,
                                       includeLocal, participantNames)
       IN /\ members' = after
          /\ created' = Len(after) - Len(members)
          /\ out' = [i \in 1..(Len(after) - Len(members)) |->
                        Call("createChildElement", 0, Len(members) + i)]
    /\ runs' = runs + 1
    /\ UNCHANGED <<participants, localName, includeLocal, participantNames>>
    /\ UNCHANGED <<docVars, subVars, upVars, restVars>>

MemNext == CallEnsureParticipants

MemSpec == MemInit /\ [][MemNext]_vars

\* C20: after ensureParticipants no two members have the same name, and a
\* second call with the same arguments creates no member
C20_IdempotentNoDuplicates ==
    /\ runs >= 1 => NoDuplicates(members)
    /\ runs >= 2 => created = 0

\* ==================================================== useRoomParticipants
\* src/src/document-connection-scope.ts, 129-153

MaxRoomChanges == 2       \* changes of the `room` prop explored

RoomIds == {1, 2}                  \* rooms with a messaging capability
Parts   == {"p1", "p2"}            \* remote participants
Events  == {"participant_added", "participant_removed", "messaging_enabled"}

NoListeners == [e \in Events |-> 0]

\* lines 139-141: the effect registers its closure for the three events
Registered(l) == [e \in Events |-> l[e] + 1]

\* lines 146-148: the cleanup calls off for participant_added and
\* participant_removed, and on (not off) for messaging_enabled
AfterCleanup(l) ==
    [e \in Events |-> IF e = "messaging_enabled" THEN l[e] + 1 ELSE l[e] - 1]

\* the listener table after the cleanup of the current effect
LstAfterCleanup ==
    IF rpRoom = Null THEN lst
    ELSE [lst EXCEPT ![rpRoom] = AfterCleanup(lst[rpRoom])]

\* first render and first effect run on `room`: with a room, the listeners
\* are registered and updateParticipants() has read the live participants
RosterInit ==
    /\ IdleExceptRoster
    /\ rpMounted = TRUE
    /\ rpRoom \in RoomIds \cup {Null}
    /\ rpChanges = 0
    /\ live \in [RoomIds -> SUBSET Parts]
    /\ lst = [r \in RoomIds |-> IF r = rpRoom THEN Registered(NoListeners)
                                            ELSE NoListeners]
    /\ roster = IF rpRoom = Null THEN {} ELSE live[rpRoom]
    /\ out = <<>>

\* a hook that does not listen to participant_removed
Emit_NoRemovedListener(r, e, now) ==
    /\ live' = [live EXCEPT ![r] = now]
    /\ roster' = IF lst[r][e] > 0 /\ rpMounted /\ e # "participant_removed"
                 THEN now ELSE roster
    /\ out' = <<Call(e, r, lst[r][e])>>
    /\ UNCHANGED <<rpMounted, rpRoom, rpChanges, lst>>
    /\ UNCHANGED exceptRoster

\* room r's messaging changes its participants to `now` and emits event e;
\* every closure registered for e runs setParticipants(remoteParticipants)
Emit(r, e, now) ==
    /\ live' = [live EXCEPT ![r] = now]
    /\ roster' = IF lst[r][e] > 0 /\ rpMounted THEN now ELSE roster
    /\ out' = <<Call(e, r, lst[r][e])>>
    /\ UNCHANGED <<rpMounted, rpRoom, rpChanges, lst>>
    /\ UNCHANGED exceptRoster

ParticipantAdded(r, p) ==
    /\ p \notin live[r]
    /\ Emit(r, "participant_added", live[r] \cup {p})

ParticipantRemoved(r, p) ==
    /\ p \in live[r]
    /\ Emit(r, "participant_removed", live[r] \ {p})

MessagingEnabled(r, now) ==
    Emit(r, "messaging_enabled", now)

\* the `room` prop changes: cleanup of the old effect, then the new effect
RosterRoomChange(r) ==
    /\ rpMounted
    /\ rpChanges < MaxRoomChanges
    /\ r # rpRoom
    /\ rpRoom' = r
    /\ rpChanges' = rpChanges + 1
    /\ lst' = IF r = Null THEN LstAfterCleanup
              ELSE [LstAfterCleanup EXCEPT ![r] = Registered(LstAfterCleanup[r])]
    /\ roster' = IF r = Null THEN roster ELSE live[r]
    /\ out' = <<>>
    /\ UNCHANGED <<rpMounted, live>>
    /\ UNCHANGED exceptRoster

\* the component unmounts: cleanup only
RosterUnmount ==
    /\ rpMounted
    /\ rpMounted' = FALSE
    /\ lst' = LstAfterCleanup
    /\ out' = <<>>
    /\ UNCHANGED <<rpRoom, rpChanges, live, roster>>
    /\ UNCHANGED exceptRoster

RosterNext ==
    \/ \E r \in RoomIds : \E p \in Parts : ParticipantAdded(r, p)
    \/ \E r \in RoomIds : \E p \in Parts : ParticipantRemoved(r, p)
    \/ \E r \in RoomIds : \E now \in SUBSET Parts : MessagingEnabled(r, now)
    \/ \E r \in RoomIds \cup {Null} : RosterRoomChange(r)
    \/ RosterUnmount

RosterSpec == RosterInit /\ [][RosterNext]_vars

\* C24: the roster is read on attach, and after every participant_added,
\* participant_removed and messaging_enabled event of the attached room it
\* equals that room's live remote participants
C24_RosterFollowsEvents ==
    /\ rpRoom # Null => roster = live[rpRoom]
    /\ [][(rpMounted' /\ rpRoom' # Null)
             => /\ rpRoom' # rpRoom => roster' = live'[rpRoom']
                /\ (out' # <<>> /\ out'[1].op \in Events /\ out'[1].b = rpRoom')
                      => roster' = live'[rpRoom']]_vars

\* a removal on the attached room has just been followed by the roster
C24_Witness ==
    /\ rpMounted
    /\ rpRoom # Null
    /\ out = <<Call("participant_removed", rpRoom, 1)>>
    /\ roster = live[rpRoom]
    /\ roster # {}

\* C34: after a room change or an unmount no listener of the hook is left
\* on the room it has left, and an event of a room the hook is not attached
\* to does not change the roster
C34_ListenersRemoved ==
    /\ [](\A r \in RoomIds : (~rpMounted \/ r # rpRoom) => lst[r] = NoListeners)
    /\ [][(out' # <<>> /\ out'[1].op \in Events /\ out'[1].b # rpRoom')
             => roster' = roster]_vars

\* ===================================================== useDocumentChanged
\* src/src/document-connection-scope.ts, 114-127

MaxNotes      == 3        \* change notifications one handle delivers
MaxDocChanges == 2        \* changes of the `document` prop explored

DocIds == {1, 2}          \* document handles

\* lines 119-124, the calls of one effect run on handle d: document.listen,
\* then onChanged(document)
Attach(d) ==
    IF d = Null THEN <<>> ELSE <<Call("listen", d, 0), Call("onChanged", d, 0)>>

\* line 124, the calls of the cleanup of the effect run on handle d
Detach(d) ==
    IF d = Null THEN <<>> ELSE <<Call("unsubscribe", d, 0)>>

\* first render and first effect run: with a handle, document.listen is
\* called and onChanged(document) is invoked once
ChgInit ==
    /\ IdleExceptChg
    /\ chMounted = TRUE
    /\ chDoc \in DocIds \cup {Null}
    /\ chChanges = 0
    /\ feed = [h \in DocIds |-> 0]
    /\ subs = [h \in DocIds |-> IF h = chDoc THEN 1 ELSE 0]
    /\ chSince = 0
    /\ chLog = IF chDoc = Null THEN <<>> ELSE <<0>>
    /\ out = Attach(chDoc)

\* a feed that drops every notification after the first
Notify_FirstOnly(h) ==
    /\ feed[h] < MaxNotes
    /\ feed' = [feed EXCEPT ![h] = @ + 1]
    /\ IF subs[h] > 0 /\ feed[h] = 0
          THEN /\ chLog' = Append(chLog, feed[h] + 1)
               /\ out' = <<Call("onChanged", h, feed[h] + 1)>>
          ELSE /\ out' = <<>>
               /\ UNCHANGED chLog
    /\ UNCHANGED <<chMounted, chDoc, chChanges, subs, chSince>>
    /\ UNCHANGED exceptChg

\* handle h's feed delivers a change notification: every active
\* subscription runs its listener, () => onChanged(document)
Notify(h) ==
    /\ feed[h] < MaxNotes
    /\ feed' = [feed EXCEPT ![h] = @ + 1]
    /\ chLog' = chLog \o [i \in 1..subs[h] |-> feed[h] + 1]
    /\ out' = [i \in 1..subs[h] |-> Call("onChanged", h, feed[h] + 1)]
    /\ UNCHANGED <<chMounted, chDoc, chChanges, subs, chSince>>
    /\ UNCHANGED exceptChg

\* a cleanup that leaves the subscription in place
SubsAfterCleanup_Keep == subs

\* the listen subscriptions after the cleanup of the current effect
SubsAfterCleanup ==
    IF chDoc = Null THEN subs ELSE [subs EXCEPT ![chDoc] = @ - 1]

\* the `document` prop changes: cleanup of the old effect (s.unsubscribe()),
\* then the new effect
ChgDocChange(d) ==
    /\ chMounted
    /\ chChanges < MaxDocChanges
    /\ d # chDoc
    /\ chDoc' = d
    /\ chChanges' = chChanges + 1
    /\ subs' = IF d = Null THEN SubsAfterCleanup
               ELSE [SubsAfterCleanup EXCEPT ![d] = @ + 1]
    /\ chSince' = IF d = Null THEN 0 ELSE feed[d]
    /\ chLog' = IF d = Null THEN <<>> ELSE <<0>>
    /\ out' = Detach(chDoc) \o Attach(d)
    /\ UNCHANGED <<chMounted, feed>>
    /\ UNCHANGED exceptChg

\* the component unmounts: cleanup only
ChgUnmount ==
    /\ chMounted
    /\ chMounted' = FALSE
    /\ subs' = SubsAfterCleanup
    /\ out' = Detach(chDoc)
    /\ UNCHANGED <<chDoc, chChanges, feed, chSince, chLog>>
    /\ UNCHANGED exceptChg

ChgNext ==
    \/ \E h \in DocIds : Notify(h)
    \/ \E d \in DocIds \cup {Null} : ChgDocChange(d)
    \/ ChgUnmount

ChgSpec == ChgInit /\ [][ChgNext]_vars

\* C27: with a handle, onChanged has been invoked once on attach and then
\* once per notification the handle's feed delivered since, in the feed's
\* order; without a handle it has not been invoked
C27_OncePerNotification ==
    chMounted =>
        IF chDoc = Null THEN chLog = <<>>
        ELSE chLog = <<0>> \o [i \in 1..(feed[chDoc] - chSince) |-> chSince + i]

\* a handle attached after it had delivered changes has delivered two more
C27_Witness ==
    /\ chMounted
    /\ chDoc # Null
    /\ chSince > 0
    /\ Len(chLog) = 3

\* C36: at most one subscription of the observer is active, and it is on
\* the current handle; when the handle changes the old subscription is
\* unsubscribed before listen is called on the new handle, and no onChanged
\* call is made for a handle other than the current one
C36_UnsubscribeBeforeListen ==
    /\ [](\A h \in DocIds : subs[h] = IF chMounted /\ h = chDoc THEN 1 ELSE 0)
    /\ [][/\ \A i \in 1..Len(out') :
                (out'[i].op = "listen" /\ chDoc # Null)
                   => \E j \in 1..(i - 1) : out'[j] = Call("unsubscribe", chDoc, 0)
          /\ \A i \in 1..Len(out') :
                out'[i].op = "onChanged" => out'[i].b = chDoc']_vars

\* after the handle was replaced, the feed of a handle the observer is not
\* attached to has delivered a notification: no call was made
C36_Witness ==
    /\ chMounted
    /\ chChanges > 0
    /\ chDoc # Null
    /\ \E h \in DocIds : h # chDoc /\ feed[h] > 0
    /\ out = <<>>

\* ====================================================== useRoomIndicators
\* src/unnamed/part_003, 179-241

MaxIndChanges == 1        \* changes of the `path` prop explored

TypingDelay   == 1000     \* setTimeout(..., 1000)
ThinkingDelay == 5000     \* setTimeout(..., 5000)
TickMs        == 500      \* the step in which time advances

NoTimer == -1             \* no entry for the sender in a timer map

Senders  == {1, 2}        \* remote participant ids
LocalId  == 3             \* room.localParticipant.id
MsgTypes == {"typing", "thinking"}

\* Object.keys(map).length > 0
HasKeys(map) == \E s \in Senders : map[s] # NoTimer

\* a state setter of the hook: ignored once the component is unmounted
IndSetState(new, old) == IF inMounted THEN new ELSE old

\* first render and first effect run: the subscription on room.listen()
IndInit ==
    /\ IdleExceptInd
    /\ inMounted = TRUE
    /\ inPath \in Paths
    /\ inChanges = 0
    /\ stalePath = "none"
    /\ typingMap = [s \in Senders |-> NoTimer]
    /\ thinkingMap = [s \in Senders |-> NoTimer]
    /\ typing = FALSE
    /\ thinking = FALSE
    /\ out = <<>>

\* the message passes the tests of lines 191-202: not from the local
\* participant, and for the path of the subscription that handles it
Accepted(from, p, sub) == from # LocalId /\ p = sub

\* a handler that leaves a running typing timer alone
OnMessage_NoRestart(type, from, p, flag, sub) ==
    IF ~Accepted(from, p, sub)
    THEN /\ out' = <<Call("ignored", from, 0)>>
         /\ UNCHANGED <<typingMap, thinkingMap, typing, thinking>>
    ELSE /\ out' = <<Call(type, from, Flag(flag))>>
         /\ IF type = "typing"
            THEN /\ typingMap' = [typingMap EXCEPT ![from] =
                                     IF @ = NoTimer THEN TypingDelay ELSE @]
                 /\ typing' = IndSetState(HasKeys(typingMap'), typing)
                 /\ UNCHANGED <<thinkingMap, thinking>>
            ELSE /\ thinkingMap' = [thinkingMap EXCEPT ![from] =
                                       IF flag THEN ThinkingDelay ELSE NoTimer]
                 /\ thinking' = IndSetState(HasKeys(thinkingMap'), thinking)
                 /\ UNCHANGED <<typingMap, typing>>

\* a handler that lets the timer run on when thinking is false
OnMessage_NoClear(type, from, p, flag, sub) ==
    IF ~Accepted(from, p, sub)
    THEN /\ out' = <<Call("ignored", from, 0)>>
         /\ UNCHANGED <<typingMap, thinkingMap, typing, thinking>>
    ELSE /\ out' = <<Call(type, from, Flag(flag))>>
         /\ IF type = "typing"
            THEN /\ typingMap' = [typingMap EXCEPT ![from] = TypingDelay]
                 /\ typing' = IndSetState(HasKeys(typingMap'), typing)
                 /\ UNCHANGED <<thinkingMap, thinking>>
            ELSE /\ thinkingMap' = [thinkingMap EXCEPT ![from] =
                                       IF flag THEN ThinkingDelay ELSE @]
                 /\ thinking' = IndSetState(HasKeys(thinkingMap'), thinking)
                 /\ UNCHANGED <<typingMap, typing>>

\* the `next` callback, lines 190-234, of the subscription for path `sub`,
\* on a message of `type` from `from` for path p (flag: message.thinking):
\* clearTimeout on the sender's entry, a new timer (or the entry deleted),
\* the flag recomputed
OnMessage(type, from, p, flag, sub) ==
    IF ~Accepted(from, p, sub)
    THEN /\ out' = <<Call("ignored", from, 0)>>
         /\ UNCHANGED <<typingMap, thinkingMap, typing, thinking>>
    ELSE /\ out' = <<Call(type, from, Flag(flag))>>
         /\ IF type = "typing"
            THEN /\ typingMap' = [typingMap EXCEPT ![from] = TypingDelay]
                 /\ typing' = IndSetState(HasKeys(typingMap'), typing)
                 /\ UNCHANGED <<thinkingMap, thinking>>
            ELSE /\ thinkingMap' = [thinkingMap EXCEPT ![from] =
                                       IF flag THEN ThinkingDelay ELSE NoTimer]
                 /\ thinking' = IndSetState(HasKeys(thinkingMap'), thinking)
                 /\ UNCHANGED <<typingMap, typing>>

\* the current subscription receives a room message
Deliver(type, from, p, flag) ==
    /\ inMounted
    /\ type = "typing" => ~flag
    /\ OnMessage(type, from, p, flag, inPath)
    /\ UNCHANGED <<inMounted, inPath, inChanges, stalePath>>
    /\ UNCHANGED exceptInd

\* the continuation of a torn-down subscription handles the event its loop
\* had pulled before unsubscribe()
StaleDeliver(type, from, p, flag) ==
    /\ stalePath # "none"
    /\ type = "typing" => ~flag
    /\ OnMessage(type, from, p, flag, stalePath)
    /\ stalePath' = "none"
    /\ UNCHANGED <<inMounted, inPath, inChanges>>
    /\ UNCHANGED exceptInd

\* the typing timer of sender s expires (lines 209-213)
TypingExpire(s) ==
    /\ typingMap[s] = 0
    /\ typingMap' = [typingMap EXCEPT ![s] = NoTimer]
    /\ typing' = IndSetState(HasKeys(typingMap'), typing)
    /\ out' = <<Call("typingExpired", s, 0)>>
    /\ UNCHANGED <<inMounted, inPath, inChanges, stalePath, thinkingMap, thinking>>
    /\ UNCHANGED exceptInd

\* the thinking timer of sender s expires (lines 222-226)
ThinkingExpire(s) ==
    /\ thinkingMap[s] = 0
    /\ thinkingMap' = [thinkingMap EXCEPT ![s] = NoTimer]
    /\ thinking' = IndSetState(HasKeys(thinkingMap'), thinking)
    /\ out' = <<Call("thinkingExpired", s, 0)>>
    /\ UNCHANGED <<inMounted, inPath, inChanges, stalePath, typingMap, typing>>
    /\ UNCHANGED exceptInd

\* TickMs pass: no pending timer is due, every pending timer comes closer
Tick ==
    /\ HasKeys(typingMap) \/ HasKeys(thinkingMap)
    /\ \A s \in Senders : typingMap[s] # 0 /\ thinkingMap[s] # 0
    /\ typingMap' = [s \in Senders |->
                        IF typingMap[s] = NoTimer THEN NoTimer ELSE typingMap[s] - TickMs]
    /\ thinkingMap' = [s \in Senders |->
                        IF thinkingMap[s] = NoTimer THEN NoTimer ELSE thinkingMap[s] - TickMs]
    /\ out' = <<>>
    /\ UNCHANGED <<inMounted, inPath, inChanges, stalePath, typing, thinking>>
    /\ UNCHANGED exceptInd

\* the `path` prop changes: the cleanup calls s.unsubscribe(), the new
\* effect subscribes again; the old loop may hold one pulled event
IndPathChange(p) ==
    /\ inMounted
    /\ inChanges < MaxIndChanges
    /\ p # inPath
    /\ inPath' = p
    /\ inChanges' = inChanges + 1
    /\ stalePath' \in {"none", inPath}
    /\ out' = <<>>
    /\ UNCHANGED <<inMounted, typingMap, thinkingMap, typing, thinking>>
    /\ UNCHANGED exceptInd

\* the component unmounts: s.unsubscribe()
IndUnmount ==
    /\ inMounted
    /\ inMounted' = FALSE
    /\ stalePath' \in {"none", inPath}
    /\ out' = <<>>
    /\ UNCHANGED <<inPath, inChanges, typingMap, thinkingMap, typing, thinking>>
    /\ UNCHANGED exceptInd

IndNext ==
    \/ \E type \in MsgTypes, from \in Senders \cup {LocalId}, p \in Paths,
          flag \in BOOLEAN : Deliver(type, from, p, flag)
    \/ \E type \in MsgTypes, from \in Senders \cup {LocalId}, p \in Paths,
          flag \in BOOLEAN : StaleDeliver(type, from, p, flag)
    \/ \E s \in Senders : TypingExpire(s)
    \/ \E s \in Senders : ThinkingExpire(s)
    \/ Tick
    \/ \E p \in Paths : IndPathChange(p)
    \/ IndUnmount

IndSpec == IndInit /\ [][IndNext]_vars

\* the latest step handled an accepted message of this type from sender s
Handled(type, s) ==
    /\ out # <<>>
    /\ out[1].op = type
    /\ out[1].b = s

\* C25: a typing message from a remote sender for the observed path gives
\* the sender the full 1000 ms again and makes the typing flag true; the
\* flag is true exactly while some sender has a pending timer, and a
\* sender's entry goes away only when its timer has run out
C25_TypingDecays ==
    /\ [](inMounted => (typing <=> HasKeys(typingMap)))
    /\ [][\A s \in Senders :
             /\ Handled("typing", s)'
                   => (typingMap'[s] = TypingDelay /\ (inMounted => typing'))
             /\ (typingMap[s] # NoTimer /\ typingMap'[s] = NoTimer)
                   => typingMap[s] = 0]_vars

\* the last typing timer has just expired and the flag is false again
C25_Witness ==
    /\ inMounted
    /\ out # <<>>
    /\ out[1].op = "typingExpired"
    /\ ~typing

\* C26: a thinking message with thinking=false removes the sender's entry at
\* once, whatever time it had left, one with thinking=true gives the sender
\* the full 5000 ms, and in both cases the flag is recomputed: it is true
\* exactly while some sender has a pending thinking timer
C26_ThinkingClears ==
    /\ [](inMounted => (thinking <=> HasKeys(thinkingMap)))
    /\ [][\A s \in Senders :
             Handled("thinking", s)'
                => /\ out'[1].arg = 1 => thinkingMap'[s] = ThinkingDelay
                   /\ out'[1].arg = 0 => thinkingMap'[s] = NoTimer
                   /\ inMounted =>
                         (thinking' <=> \E t \in Senders : thinkingMap'[t] # NoTimer)]_vars

\* thinking=false arrived while the sender's timer was running and another
\* sender is still thinking
C26_Witness ==
    /\ inMounted
    /\ Handled("thinking", 1)
    /\ out[1].arg = 0
    /\ thinkingMap[1] = NoTimer
    /\ thinkingMap[2] \in 1..(ThinkingDelay - 1)
    /\ thinking

\* C35: a teardown (path change or unmount) leaves no pending typing or
\* thinking timer behind, and after a path change the flags of the new path
\* start out false
C35_TeardownCancels ==
    [][(inPath' # inPath \/ inMounted' # inMounted)
          => /\ ~HasKeys(typingMap')
             /\ ~HasKeys(thinkingMap')
             /\ inMounted' => (~typing' /\ ~thinking')]_vars

\* ====================================================== useRoomConnection
\* src/unnamed/part_003, 80-167

\* a state setter of the hook: ignored once the component is unmounted
RcSetState(new, old) == IF rcMounted THEN new ELSE old

\* first render and effect run: connect() has called authorization()
ConnInit ==
    /\ IdleExceptConn
    /\ rcMounted = TRUE
    /\ rcCancelled = FALSE
    /\ rcPc = "auth"
    /\ rcState = "authorizing"
    /\ rcReady = FALSE
    /\ rcError = "none"
    /\ rcClient = "none"
    /\ rcEnable \in BOOLEAN
    /\ rcClosed = FALSE
    /\ out = <<Call("authorization", 0, 0)>>

\* catch (e), lines 142-146
ConnCatch ==
    /\ rcPc' = "end"
    /\ rcError' = IF rcCancelled THEN rcError ELSE RcSetState("caught", rcError)
    /\ rcState' = IF rcCancelled THEN rcState ELSE RcSetState("done", rcState)
    /\ out' = <<>>

\* lines 138-140: the last steps of connect()
ConnReady ==
    /\ rcPc' = "end"
    /\ rcState' = IF rcCancelled THEN rcState ELSE RcSetState("ready", rcState)
    /\ rcReady' = IF rcCancelled THEN rcReady ELSE RcSetState(TRUE, rcReady)
    /\ out' = <<>>

\* authorization() resolves: the client is created and room.start is called
AuthOk ==
    /\ rcPc = "auth"
    /\ IF rcCancelled
          THEN /\ rcPc' = "end"
               /\ out' = <<>>
               /\ UNCHANGED <<rcState, rcClient>>
          ELSE /\ rcClient' = RcSetState("live", rcClient)
               /\ rcState' = RcSetState("connecting", rcState)
               /\ rcPc' = "start"
               /\ out' = <<Call("room.start", 0, 0)>>
    /\ UNCHANGED <<rcMounted, rcCancelled, rcReady, rcError, rcEnable, rcClosed>>
    /\ UNCHANGED exceptConn

\* authorization() rejects
AuthFail ==
    /\ rcPc = "auth"
    /\ ConnCatch
    /\ UNCHANGED <<rcMounted, rcCancelled, rcReady, rcClient, rcEnable, rcClosed>>
    /\ UNCHANGED exceptConn

\* room.start resolves: messaging.enable() is called if enableMessaging
StartOk ==
    /\ rcPc = "start"
    /\ IF rcEnable
          THEN /\ rcPc' = "enable"
               /\ out' = <<Call("messaging.enable", 0, 0)>>
               /\ UNCHANGED <<rcState, rcReady>>
          ELSE ConnReady
    /\ UNCHANGED <<rcMounted, rcCancelled, rcError, rcClient, rcEnable, rcClosed>>
    /\ UNCHANGED exceptConn

\* room.start rejects
StartFail ==
    /\ rcPc = "start"
    /\ ConnCatch
    /\ UNCHANGED <<rcMounted, rcCancelled, rcReady, rcClient, rcEnable, rcClosed>>
    /\ UNCHANGED exceptConn

\* room.messaging.enable resolves
EnableOk ==
    /\ rcPc = "enable"
    /\ ConnReady
    /\ UNCHANGED <<rcMounted, rcCancelled, rcError, rcClient, rcEnable, rcClosed>>
    /\ UNCHANGED exceptConn

\* room.messaging.enable rejects
EnableFail ==
    /\ rcPc = "enable"
    /\ ConnCatch
    /\ UNCHANGED <<rcMounted, rcCancelled, rcReady, rcClient, rcEnable, rcClosed>>
    /\ UNCHANGED exceptConn

\* the room calls onDone (lines 123-126)
OnDone ==
    /\ rcPc \in {"start", "enable", "end"}
    /\ rcClient # "none"
    /\ ~rcClosed
    /\ rcClosed' = TRUE
    /\ rcState' = IF rcCancelled THEN rcState ELSE RcSetState("done", rcState)
    /\ out' = <<Call("onDone", 0, 0)>>
    /\ UNCHANGED <<rcMounted, rcCancelled, rcPc, rcReady, rcError, rcClient, rcEnable>>
    /\ UNCHANGED exceptConn

\* the room calls onError (lines 127-131)
OnError ==
    /\ rcPc \in {"start", "enable", "end"}
    /\ rcClient # "none"
    /\ ~rcClosed
    /\ rcClosed' = TRUE
    /\ rcError' = IF rcCancelled THEN rcError ELSE RcSetState("onError", rcError)
    /\ rcState' = IF rcCancelled THEN rcState ELSE RcSetState("done", rcState)
    /\ out' = <<Call("onError", 0, 0)>>
    /\ UNCHANGED <<rcMounted, rcCancelled, rcPc, rcReady, rcClient, rcEnable>>
    /\ UNCHANGED exceptConn

\* dispose(), lines 97-101: clientRef.current?.dispose(); setState('done')
Dispose ==
    /\ rcClient' = IF rcClient = "none" THEN "none" ELSE "disposed"
    /\ rcState' = RcSetState("done", rcState)
    /\ out' = <<Call("dispose", 0, 0)>>

\* the consumer calls the exposed dispose()
CallDispose ==
    /\ rcMounted
    /\ Dispose
    /\ UNCHANGED <<rcMounted, rcCancelled, rcPc, rcReady, rcError, rcEnable, rcClosed>>
    /\ UNCHANGED exceptConn

\* the component unmounts: cancelled = true; dispose()
ConnUnmount ==
    /\ rcMounted
    /\ rcMounted' = FALSE
    /\ rcCancelled' = TRUE
    /\ rcClient' = IF rcClient = "none" THEN "none" ELSE "disposed"
    /\ out' = <<Call("dispose", 0, 0)>>
    /\ UNCHANGED <<rcPc, rcState, rcReady, rcError, rcEnable, rcClosed>>
    /\ UNCHANGED exceptConn

ConnNext ==
    \/ AuthOk
    \/ AuthFail
    \/ StartOk
    \/ StartFail
    \/ EnableOk
    \/ EnableFail
    \/ OnDone
    \/ OnError
    \/ CallDispose
    \/ ConnUnmount

ConnSpec == ConnInit /\ [][ConnNext]_vars

\* position of a state on the path authorizing, connecting, ready, done
Rank(st) == CASE st = "authorizing" -> 0
              [] st = "connecting"  -> 1
              [] st = "ready"       -> 2
              [] st = "done"        -> 3

\* C28: the state only moves forward along authorizing, connecting, ready,
\* done, and once it is done it never changes again
C28_StateMovesForward ==
    [][rcState' # rcState => Rank(rcState') > Rank(rcState)]_vars

\* C38: ready is true only while the state is 'ready'
C38_ReadyOnlyInReady ==
    rcReady => rcState = "ready"

\* ================================================================ useChat
\* src/src/chat.ts, 239-260 and 293-391

MaxChatBindings == 2      \* effect runs of the connection hook (mount + path changes)
MaxSends        == 1      \* sendMessage calls by the consumer
MaxAttachments  == 1      \* attachments of one message

ChatDocs  == 1..MaxChatBindings    \* binding b opens document b
Remotes   == {"ann", "bob"}        \* names of remote participants
LocalName == "me"                  \* room.localParticipant's name

\* getParticipantNames is a generator function: its result can be iterated
\* once, and reads the members node when it is iterated
NamesOf(gen, names) == IF gen = "fresh" THEN names ELSE {}

\* lines 344-346 after a render whose roomParticipants or documentMembers
\* changed: getOnlineParticipants iterates documentMembers
Recomputed(ros, gen, names) == {p \in ros : p \in NamesOf(gen, names)}

\* sendMessage (lines 348-379) with `document` = d and `onlineParticipants`
\* = to: the document it appends to (Null if none), the file children it
\* creates and the participants it dispatches to
SendEffect(d, files, to) ==
    IF d # Null /\ hasThread[d]
    THEN [doc |-> d, author |-> LocalName, files |-> files, to |-> to]
    ELSE [doc |-> Null, author |-> "none", files |-> 0, to |-> {}]

NoSend == [doc |-> Null, author |-> "none", files |-> 0, to |-> {}]

\* first render and effects: document is null, documentMembers is [], the
\* connection hook has started to open the document of the first path
ChatInit ==
    /\ IdleExceptChat
    /\ ctBinding = 1
    /\ ctPc = "opening"
    /\ ctDoc = Null
    /\ ctInitial \in BOOLEAN
    /\ onConnDoc = Null
    /\ firstConn = Null
    /\ docMembers \in [ChatDocs -> SUBSET Remotes]
    /\ hasThread \in [ChatDocs -> BOOLEAN]
    /\ nInitial = [d \in ChatDocs |-> 0]
    /\ nUser = [d \in ChatDocs |-> 0]
    /\ documentMembers = "array"
    /\ ctRoster \in SUBSET Remotes
    /\ online = {}
    /\ ctSent = NoSend
    /\ out = <<>>

\* The connection hook publishes the document of the current binding and
\* calls onConnected(doc): ensureParticipants adds the local participant,
\* then sendMessage(initialMessage) runs with the `document` of the render
\* that created the effect. The render that follows attaches
\* useDocumentChanged, whose onChanged call stores a fresh generator, and
\* the render after that recomputes onlineParticipants.
ChatConnected ==
    /\ ctPc = "opening"
    /\ ctPc' = "connected"
    /\ ctDoc' = ctBinding
    /\ firstConn' = IF firstConn = Null THEN ctBinding ELSE firstConn
    /\ docMembers' = [docMembers EXCEPT ![ctBinding] = @ \cup {LocalName}]
    /\ LET eff == SendEffect(onConnDoc, 0, online)
       IN /\ nInitial' = IF ctInitial /\ eff.doc # Null
                         THEN [nInitial EXCEPT ![eff.doc] = @ + 1]
                         ELSE nInitial
          /\ out' = <<Call("onConnected", ctBinding, 0)>>
                    \o (IF ctInitial /\ eff.doc # Null
                        THEN <<Call("createChildElement", eff.doc, 0)>> ELSE <<>>)
    /\ documentMembers' = "consumed"
    /\ online' = Recomputed(ctRoster, "fresh", docMembers'[ctBinding])
    /\ UNCHANGED <<ctBinding, ctInitial, onConnDoc, hasThread, nUser, ctRoster, ctSent>>
    /\ UNCHANGED exceptChat

\* the feed of the published document delivers a change of its members:
\* onChanged stores a fresh generator, the next render recomputes
ChatDocChanged(now) ==
    /\ ctDoc # Null
    /\ now # docMembers[ctDoc]
    /\ docMembers' = [docMembers EXCEPT ![ctDoc] = now]
    /\ documentMembers' = "consumed"
    /\ online' = Recomputed(ctRoster, "fresh", now)
    /\ out' = <<Call("onChanged", ctDoc, 0)>>
    /\ UNCHANGED <<ctBinding, ctPc, ctDoc, ctInitial, onConnDoc, firstConn, hasThread,
                   nInitial, nUser, ctRoster, ctSent>>
    /\ UNCHANGED exceptChat

\* a roster event: roomParticipants changes, the next render recomputes
\* onlineParticipants from the documentMembers it already holds
ChatRosterEvent(now) ==
    /\ now # ctRoster
    /\ ctRoster' = now
    /\ online' = Recomputed(now, documentMembers,
                             IF ctDoc # Null THEN docMembers[ctDoc] ELSE {})
    /\ documentMembers' = IF documentMembers = "fresh" THEN "consumed"
                          ELSE documentMembers
    /\ out' = <<>>
    /\ UNCHANGED <<ctBinding, ctPc, ctDoc, ctInitial, onConnDoc, firstConn, docMembers,
                   hasThread, nInitial, nUser, ctSent>>
    /\ UNCHANGED exceptChat

\* the consumer calls the sendMessage of the latest render with a message
\* that has `files` attachments; the appended element is a document change
ChatSend(files) ==
    /\ ctPc # "none"
    /\ \A d \in ChatDocs : nUser[d] < MaxSends
    /\ LET eff == SendEffect(ctDoc, files, online)
       IN /\ ctSent' = eff
          /\ nUser' = IF eff.doc # Null THEN [nUser EXCEPT ![eff.doc] = @ + 1]
                      ELSE nUser
          /\ out' = <<Call("sendMessage", 0, files)>>
          /\ IF eff.doc # Null
                THEN /\ documentMembers' = "consumed"
                     /\ online' = Recomputed(ctRoster, "fresh", docMembers[ctDoc])
                ELSE UNCHANGED <<documentMembers, online>>
    /\ UNCHANGED <<ctBinding, ctPc, ctDoc, ctInitial, onConnDoc, firstConn, docMembers,
                   hasThread, nInitial, ctRoster>>
    /\ UNCHANGED exceptChat

\* the `path` prop changes: the render that sees the new path still holds
\* the old `document`, and its onConnected is the one the new effect keeps;
\* the cleanup then sets document to null
ChatPathChange ==
    /\ ctPc # "none"
    /\ ctBinding < MaxChatBindings
    /\ ctBinding' = ctBinding + 1
    /\ ctPc' = "opening"
    /\ onConnDoc' = ctDoc
    /\ ctDoc' = Null
    /\ out' = <<>>
    /\ UNCHANGED <<ctInitial, firstConn, docMembers, hasThread, nInitial, nUser,
                   documentMembers, ctRoster, online, ctSent>>
    /\ UNCHANGED exceptChat

ChatNext ==
    \/ ChatConnected
    \/ \E now \in SUBSET (Remotes \cup {LocalName}) : ChatDocChanged(now)
    \/ \E now \in SUBSET Remotes : ChatRosterEvent(now)
    \/ \E files \in 0..MaxAttachments : ChatSend(files)
    \/ ChatPathChange

ChatSpec == ChatInit /\ [][ChatNext]_vars

RECURSIVE SumOver(_, _)
SumOver(f, D) == IF D = {} THEN 0
                 ELSE LET d == CHOOSE x \in D : TRUE IN f[d] + SumOver(f, D \ {d})

\* C21: with an initialMessage, no message element for it exists before the
\* first successful connection, and from then on exactly one exists, in the
\* document of that connection
C21_InitialMessageOnce ==
    ctInitial =>
        IF firstConn = Null THEN SumOver(nInitial, ChatDocs) = 0
        ELSE /\ hasThread[firstConn] => nInitial[firstConn] = 1
             /\ SumOver(nInitial, ChatDocs) = nInitial[firstConn]

\* C22: while a document is published, onlineParticipants is the set of
\* live roster participants whose name is a member name of that document
C22_OnlineIsIntersection ==
    ctDoc # Null => online = ctRoster \cap docMembers[ctDoc]

\* C23: a sendMessage call on a published document with a messages node
\* appends one message element by the local participant with one file child
\* per attachment and dispatches to each online member; otherwise it
\* appends and dispatches nothing
C23_SendMessage ==
    [][(out' # <<>> /\ out'[1].op = "sendMessage")
          => IF ctDoc # Null /\ hasThread[ctDoc]
             THEN /\ ctSent'.doc = ctDoc
                  /\ nUser'[ctDoc] = nUser[ctDoc] + 1
                  /\ ctSent'.author = LocalName
                  /\ ctSent'.files = out'[1].arg
                  /\ ctSent'.to = ctRoster \cap docMembers[ctDoc]
             ELSE /\ ctSent' = NoSend
                  /\ nUser' = nUser]_vars

\* ================================== useDocumentConnection: the `room` prop
\* src/src/document-connection-scope.ts, 39-102

\* the `room` prop changes while `path` stays: the component renders again;
\* the effect depends on [path] only (line 102), so neither its cleanup nor
\* a new effect runs, and the chain goes on with the room it closed over
RoomChange(r) ==
    /\ mounted
    /\ r # room
    /\ room' = r
    /\ out' = <<>>
    /\ UNCHANGED exceptRoom

\* the life of one binding, with changes of the `room` prop
RoomNext ==
    \/ RetryNext
    \/ \E r \in RoomIds : RoomChange(r)

RoomSpec == Init /\ [][RoomNext]_vars

\* C31: a change of the room tears the binding down as a path change does:
\* the binding is cancelled, its pending retry timer is cleared, an opened
\* handle is closed, document and retry count are reset, and a new binding
\* starts its open sequence
C31_RoomChangeTearsDown ==
    [][room' # room
          => /\ cancelled'[cur]
             /\ timeoutRef' = Null
             /\ openedRef => \E i \in 1..Len(out') : out'[i].op = "sync.close"
             /\ document' = Null
             /\ retryCountRef' = 0
             /\ cur' = cur + 1
             /\ pc'[cur'] = "exists"]_vars
====
